---- MODULE Spec2Model ----
(***************************************************************************)
(* Verification model of rust_yu: the Cleaner with its Safety Gate and     *)
(* per-kind removers (src/src/modules/cleaner), and the Scan Cache in      *)
(* front of the Program Lister (src/src/modules/lister).                   *)
(*                                                                         *)
(* Strings whose characters matter (paths, names) are sequences of         *)
(* one-character strings, so that to_uppercase, starts_with, trim and the  *)
(* slicing done by the code are computed character by character.           *)
(***************************************************************************)
EXTENDS Integers, Sequences, FiniteSets, TLC

VARIABLES
    world,      \* the registry and the file system the removers act on
    call,       \* the clean_traces call of this behaviour: inputs, outcome, trail
    store,      \* the scan cache file: its rows and its metadata
    now,        \* the clock (Utc::now), in ticks
    installed,  \* the programs list_registry_programs finds
    last,       \* the last operation on the scan cache: inputs, outcome
    writer,     \* a save_scan_cache in progress: its position and transaction
    reader,     \* a read_scan_cache in progress: its position and what it read
    scan,       \* a scan_all_traces in progress: its tasks and the collector
    snapshot    \* the program snapshot file (programs.json)

vars == <<world, call, store, now, installed, last, writer, reader, scan, snapshot>>

(***************************************************************************)
(* Bounds of the model.                                                    *)
(***************************************************************************)
\* longest trace list handed to clean_traces
MaxBatch == 2

\* longest list handed to save_scan_cache
MaxEntries == 2

\* clock ticks in a second
TicksPerSecond == 2

\* ticks the clock makes one by one, before and after its jump
MaxFineTicks == 2

\* save_scan_cache calls made next to the reads of a behaviour
MaxSaves == 2

(***************************************************************************)
(* str: to_uppercase / to_lowercase / starts_with / trim (ASCII).          *)
(***************************************************************************)
LowerAlphabet ==
    <<"a","b","c","d","e","f","g","h","i","j","k","l","m","n","o","p","q","r","s","t","u","v","w","x","y","z">>

UpperAlphabet ==
    <<"A","B","C","D","E","F","G","H","I","J","K","L","M","N","O","P","Q","R","S","T","U","V","W","X","Y","Z">>

\* the uppercase of each lowercase letter, and the reverse
UpperTable ==
    [c \in {LowerAlphabet[i] : i \in DOMAIN LowerAlphabet} |->
        UpperAlphabet[CHOOSE i \in DOMAIN LowerAlphabet : LowerAlphabet[i] = c]]

LowerTable ==
    [c \in {UpperAlphabet[i] : i \in DOMAIN UpperAlphabet} |->
        LowerAlphabet[CHOOSE i \in DOMAIN UpperAlphabet : UpperAlphabet[i] = c]]

to_uppercase(s) ==
    [i \in 1..Len(s) |-> IF s[i] \in DOMAIN UpperTable THEN UpperTable[s[i]] ELSE s[i]]

to_lowercase(s) ==
    [i \in 1..Len(s) |-> IF s[i] \in DOMAIN LowerTable THEN LowerTable[s[i]] ELSE s[i]]

starts_with(s, prefix) ==
    /\ Len(prefix) <= Len(s)
    /\ \A i \in 1..Len(prefix) : s[i] = prefix[i]

RECURSIVE trim_start(_)
trim_start(s) ==
    IF s # <<>> /\ Head(s) = " " THEN trim_start(Tail(s)) ELSE s

RECURSIVE trim_end(_)
trim_end(s) ==
    IF s # <<>> /\ s[Len(s)] = " " THEN trim_end(SubSeq(s, 1, Len(s) - 1)) ELSE s

trim(s) == trim_end(trim_start(s))

\* &s[from..] with a 0-based byte offset: the text after the first `from` characters
slice_from(s, from) == SubSeq(s, from + 1, Len(s))

Backslash == "\\"

(***************************************************************************)
(* cleaner/safety.rs: the Safety Gate.                                     *)
(***************************************************************************)
CRITICAL_PATHS ==
    <<<<"C",":","\\","W","i","n","d","o","w","s">>,
      <<"C",":","\\","W","i","n","d","o","w","s","\\","S","y","s","t","e","m","3","2">>,
      <<"C",":","\\","W","i","n","d","o","w","s","\\","S","y","s","W","O","W","6","4">>,
      <<"C",":","\\","W","i","n","d","o","w","s","\\","W","i","n","S","x","S">>,
      <<"C",":","\\","W","i","n","d","o","w","s","\\","I","N","F">>,
      <<"C",":","\\","W","i","n","d","o","w","s","\\","D","r","i","v","e","r","S","t","o","r","e">>,
      <<"C",":","\\","W","i","n","d","o","w","s","\\","S","y","s","t","e","m","3","2","\\","D","r","i","v","e","r","S","t","o","r","e">>>>

CRITICAL_REGISTRY_PATHS ==
    <<<<"H","K","L","M","\\","S","Y","S","T","E","M">>,
      <<"H","K","L","M","\\","S","O","F","T","W","A","R","E","\\","M","i","c","r","o","s","o","f","t","\\","W","i","n","d","o","w","s"," ","N","T","\\","C","u","r","r","e","n","t","V","e","r","s","i","o","n">>,
      <<"H","K","L","M","\\","S","O","F","T","W","A","R","E","\\","M","i","c","r","o","s","o","f","t","\\","W","i","n","d","o","w","s","\\","C","u","r","r","e","n","t","V","e","r","s","i","o","n","\\","R","u","n">>,
      <<"H","K","L","M","\\","S","O","F","T","W","A","R","E","\\","M","i","c","r","o","s","o","f","t","\\","W","i","n","d","o","w","s","\\","C","u","r","r","e","n","t","V","e","r","s","i","o","n","\\","R","u","n","O","n","c","e">>,
      <<"H","K","L","M","\\","S","O","F","T","W","A","R","E","\\","W","O","W","6","4","3","2","N","o","d","e","\\","M","i","c","r","o","s","o","f","t","\\","W","i","n","d","o","w","s","\\","C","u","r","r","e","n","t","V","e","r","s","i","o","n","\\","R","u","n">>,
      <<"H","K","C","R","\\","*">>,
      <<"H","K","L","M","\\","B","O","O","T">>,
      <<"H","K","L","M","\\","S","A","M">>,
      <<"H","K","L","M","\\","S","E","C","U","R","I","T","Y">>>>

\* Result<(), UninstallerError>
OkUnit == [ok |-> TRUE, kind |-> "", msg |-> ""]

Err(kind, msg) == [ok |-> FALSE, kind |-> kind, msg |-> msg]

RegistryKinds == {"RegistryKey", "RegistryValue"}

PathKinds == {"File", "AppData", "Shortcut"}

TraceType ==
    {"RegistryKey", "RegistryValue", "File", "Shortcut", "AppData",
     "ScheduledTask", "Service", "Driver"}

is_critical_path(path) ==
    LET path_upper == to_uppercase(path)
    IN  \E i \in DOMAIN CRITICAL_PATHS :
            starts_with(path_upper, to_uppercase(CRITICAL_PATHS[i]))

\* the denylist entry is compared as written, not uppercased
is_critical_registry(path) ==
    LET path_upper == to_uppercase(path)
    IN  \E i \in DOMAIN CRITICAL_REGISTRY_PATHS :
            starts_with(path_upper, CRITICAL_REGISTRY_PATHS[i])

\* mutant: the gate forgets the is_critical flag
pre_delete_check_IgnoreFlag(trace) ==
    IF trace.trace_type \in RegistryKinds
    THEN IF is_critical_registry(trace.path)
         THEN Err("CriticalSystemItem", "critical_registry_key")
         ELSE OkUnit
    ELSE IF trace.trace_type \in PathKinds /\ is_critical_path(trace.path)
         THEN Err("CriticalSystemItem", "critical_system_directory")
         ELSE OkUnit

pre_delete_check(trace) ==
    IF trace.is_critical
    THEN Err("CriticalSystemItem", "marked_critical_item")
    ELSE IF trace.trace_type \in RegistryKinds
         THEN IF is_critical_registry(trace.path)
              THEN Err("CriticalSystemItem", "critical_registry_key")
              ELSE OkUnit
         ELSE IF trace.trace_type \in PathKinds
              THEN IF is_critical_path(trace.path)
                   THEN Err("CriticalSystemItem", "critical_system_directory")
                   ELSE OkUnit
              ELSE OkUnit

(***************************************************************************)
(* common/utils.rs: parse_registry_path.                                   *)
(***************************************************************************)
\* the hive prefixes parse_registry_path tests for
Prefix ==
    [HKLM |-> <<"H","K","L","M","\\">>,
     HKEY_LOCAL_MACHINE |-> <<"H","K","E","Y","_","L","O","C","A","L","_","M","A","C","H","I","N","E","\\">>,
     HKCU |-> <<"H","K","C","U","\\">>,
     HKEY_CURRENT_USER |-> <<"H","K","E","Y","_","C","U","R","R","E","N","T","_","U","S","E","R","\\">>,
     HKCR |-> <<"H","K","C","R","\\">>,
     HKEY_CLASSES_ROOT |-> <<"H","K","E","Y","_","C","L","A","S","S","E","S","_","R","O","O","T","\\">>,
     HKU |-> <<"H","K","U","\\">>,
     HKEY_USERS |-> <<"H","K","E","Y","_","U","S","E","R","S","\\">>]

NoHive == [some |-> FALSE, hkey |-> "", subkey |-> <<>>]

Hive(hkey, subkey) == [some |-> TRUE, hkey |-> hkey, subkey |-> subkey]

parse_registry_path(raw) ==
    LET path == trim(raw)
    IN  IF starts_with(path, Prefix.HKLM) \/ starts_with(path, Prefix.HKEY_LOCAL_MACHINE)
        THEN Hive("HKEY_LOCAL_MACHINE", slice_from(path, 5))
        ELSE IF starts_with(path, Prefix.HKCU) \/ starts_with(path, Prefix.HKEY_CURRENT_USER)
        THEN Hive("HKEY_CURRENT_USER", slice_from(path, 5))
        ELSE IF starts_with(path, Prefix.HKCR) \/ starts_with(path, Prefix.HKEY_CLASSES_ROOT)
        THEN Hive("HKEY_CLASSES_ROOT", slice_from(path, 5))
        ELSE IF starts_with(path, Prefix.HKU) \/ starts_with(path, Prefix.HKEY_USERS)
        THEN Hive("HKEY_USERS", slice_from(path, 4))
        ELSE NoHive

(***************************************************************************)
(* The registry and the file system as the removers see them.  Windows     *)
(* compares key names and paths without regard to case, so the world keeps *)
(* them uppercased and every lookup uppercases what it is given.           *)
(*   world.keys   : {[hkey, path]}          existing registry keys         *)
(*   world.values : {[hkey, key, name]}     existing registry values       *)
(*   world.fs     : {[path, is_dir, len]}   existing files and directories *)
(*   world.deny   : classes of operation the OS refuses ("reg": opening a  *)
(*                  key for writing or deleting it, "fs": removing a file  *)
(*                  or directory, "stat": reading a file's metadata)       *)
(***************************************************************************)
KeyExists(w, hkey, path) ==
    \/ path = <<>>
    \/ [hkey |-> hkey, path |-> to_uppercase(path)] \in w.keys

ValueExists(w, hkey, key_path, value_name) ==
    [hkey |-> hkey, key |-> to_uppercase(key_path), name |-> to_uppercase(value_name)]
        \in w.values

\* p names `root` itself or something below it
AtOrUnder(p, root) ==
    root = <<>> \/ p = root \/ starts_with(p, Append(root, Backslash))

PathExists(w, path) == \E e \in w.fs : e.path = to_uppercase(path)

PathEntry(w, path) == CHOOSE e \in w.fs : e.path = to_uppercase(path)

RECURSIVE SumLen(_)
SumLen(entries) ==
    IF entries = {} THEN 0
    ELSE LET e == CHOOSE x \in entries : TRUE
         IN  e.len + SumLen(entries \ {e})

(***************************************************************************)
(* common/utils.rs: calculate_dir_size.                                    *)
(***************************************************************************)
calculate_dir_size(w, path) ==
    IF ~PathEntry(w, path).is_dir
    THEN PathEntry(w, path).len
    ELSE SumLen({e \in w.fs : ~e.is_dir /\ AtOrUnder(e.path, to_uppercase(path))})

(***************************************************************************)
(* cleaner/models.rs: CleanResult.  error is <<>> for None and the         *)
(* displayed error, a non-empty sequence of its parts, for Some.           *)
(***************************************************************************)
NoError == <<>>

CleanResult(trace, success, error, bytes_freed) ==
    [trace_id |-> trace.id, path |-> trace.path, success |-> success,
     error |-> error, bytes_freed |-> bytes_freed]

\* UninstallerError's Display: the variant's label, then its payload
Display(e) == <<e.kind, e.msg>>

\* what a remover hands back: Ok(CleanResult) or Err(UninstallerError), and the world
RemoverOk(result, w) == [ok |-> TRUE, result |-> result, err |-> OkUnit, world |-> w]

RemoverErr(trace, e, w) ==
    [ok |-> FALSE, result |-> CleanResult(trace, FALSE, Display(e), 0), err |-> e,
     world |-> w]

(***************************************************************************)
(* cleaner/registry.rs.                                                    *)
(***************************************************************************)
\* Result<(), UninstallerError> and the registry afterwards
RegOutcome(res, w) == [res |-> res, world |-> w]

delete_registry_key(hkey, path, w) ==
    IF ~KeyExists(w, hkey, path)
    THEN RegOutcome(OkUnit, w)                    \* NotFound is success
    ELSE IF "reg" \in w.deny
    THEN RegOutcome(Err("Registry", "os:PermissionDenied"), w)
    ELSE RegOutcome(OkUnit,
            [w EXCEPT
                !.keys = {k \in @ : ~(k.hkey = hkey /\ AtOrUnder(k.path, to_uppercase(path)))},
                !.values = {v \in @ : ~(v.hkey = hkey /\ AtOrUnder(v.key, to_uppercase(path)))}])

\* the 1-based position of the last separator of s, 0 when there is none
LastSeparator(s) ==
    IF \E i \in 1..Len(s) : s[i] = Backslash
    THEN CHOOSE i \in 1..Len(s) :
            /\ s[i] = Backslash
            /\ \A j \in (i + 1)..Len(s) : s[j] # Backslash
    ELSE 0

delete_registry_value(hkey, path, w) ==
    LET at == LastSeparator(path)
        value_name == SubSeq(path, at + 1, Len(path))
        key_path == SubSeq(path, 1, at - 1)
    IN  IF at = 0
        THEN RegOutcome(Err("Registry", "invalid_registry_value_path"), w)
        ELSE IF ~KeyExists(w, hkey, key_path)
        THEN RegOutcome(Err("FileSystem", "os:NotFound"), w)     \* open_subkey_with_flags(..)?
        ELSE IF "reg" \in w.deny
        THEN RegOutcome(Err("FileSystem", "os:PermissionDenied"), w)
        ELSE IF ~ValueExists(w, hkey, key_path, value_name)
        THEN RegOutcome(OkUnit, w)                 \* NotFound is success
        ELSE RegOutcome(OkUnit,
                [w EXCEPT !.values = @ \
                    {[hkey |-> hkey, key |-> to_uppercase(key_path),
                      name |-> to_uppercase(value_name)]}])

RegistryResult_ErrorDropped(trace, out) ==
    IF out.res.ok
    THEN RemoverOk(CleanResult(trace, TRUE, NoError, 0), out.world)
    ELSE RemoverOk(CleanResult(trace, FALSE, NoError, 0), out.world)

\* delete_registry_trace: match result { Ok(_) => .., Err(e) => .. }
RegistryResult(trace, out) ==
    IF out.res.ok
    THEN RemoverOk(CleanResult(trace, TRUE, NoError, 0), out.world)
    ELSE RemoverOk(CleanResult(trace, FALSE, Display(out.res), 0), out.world)

delete_registry_trace(trace, w) ==
    LET parsed == parse_registry_path(trace.path)
    IN  IF ~parsed.some
        THEN RemoverOk(CleanResult(trace, FALSE, <<"invalid_registry_path_format">>, 0), w)
        ELSE IF trace.trace_type \notin RegistryKinds
        THEN RemoverOk(CleanResult(trace, FALSE, <<"unsupported_registry_trace_type">>, 0), w)
        ELSE RegistryResult(trace,
                IF trace.trace_type = "RegistryKey"
                THEN delete_registry_key(parsed.hkey, parsed.subkey, w)
                ELSE delete_registry_value(parsed.hkey, parsed.subkey, w))

(***************************************************************************)
(* cleaner/filesystem.rs.                                                  *)
(***************************************************************************)
\* std::fs::remove_dir_all / remove_file on an existing entry
RemoveEntry(w, path) ==
    [w EXCEPT !.fs = {e \in @ : ~AtOrUnder(e.path, to_uppercase(path))}]

delete_file_trace(trace, w) ==
    IF ~PathExists(w, trace.path)
    THEN RemoverOk(CleanResult(trace, TRUE, NoError, 0), w)
    ELSE IF PathEntry(w, trace.path).is_dir
    THEN LET bytes_freed == calculate_dir_size(w, trace.path)
         IN  IF "fs" \in w.deny
             THEN RemoverOk(CleanResult(trace, FALSE, <<"os:PermissionDenied">>, 0), w)
             ELSE RemoverOk(CleanResult(trace, TRUE, NoError, bytes_freed),
                            RemoveEntry(w, trace.path))
    ELSE IF "stat" \in w.deny
    THEN RemoverErr(trace, Err("FileSystem", "os:PermissionDenied"), w)   \* path.metadata()?
    ELSE LET bytes_freed == PathEntry(w, trace.path).len
         IN  IF "fs" \in w.deny
             THEN RemoverOk(CleanResult(trace, FALSE, <<"os:PermissionDenied">>, 0), w)
             ELSE RemoverOk(CleanResult(trace, TRUE, NoError, bytes_freed),
                            RemoveEntry(w, trace.path))

(***************************************************************************)
(* cleaner/shortcuts.rs.                                                   *)
(***************************************************************************)
delete_shortcut_trace(trace, w) ==
    IF ~PathExists(w, trace.path)
    THEN RemoverOk(CleanResult(trace, TRUE, NoError, 0), w)
    ELSE IF PathEntry(w, trace.path).is_dir \/ "fs" \in w.deny
    THEN RemoverOk(CleanResult(trace, FALSE, <<"os:PermissionDenied">>, 0), w)   \* remove_file
    ELSE RemoverOk(CleanResult(trace, TRUE, NoError, 0), RemoveEntry(w, trace.path))

(***************************************************************************)
(* cleaner/mod.rs: clean_traces.  One loop iteration is CleanOne; the loop *)
(* threads the world through the traces in order and collects the results  *)
(* and the trail of calls made (the Safety Gate, then at most one remover).*)
(***************************************************************************)
Called(op, trace) == [op |-> op, trace_id |-> trace.id]

Step(result, w, calls) == [result |-> result, world |-> w, calls |-> calls]

RemoverFor(trace) ==
    IF trace.trace_type \in RegistryKinds THEN "delete_registry_trace"
    ELSE IF trace.trace_type \in {"File", "AppData"} THEN "delete_file_trace"
    ELSE IF trace.trace_type = "Shortcut" THEN "delete_shortcut_trace"
    ELSE "none"

Dispatch(trace, w) ==
    IF RemoverFor(trace) = "delete_registry_trace" THEN delete_registry_trace(trace, w)
    ELSE IF RemoverFor(trace) = "delete_file_trace" THEN delete_file_trace(trace, w)
    ELSE delete_shortcut_trace(trace, w)

\* clean_traces: match result { Ok(r) => results.push(r), Err(e) => results.push(..) }
Pushed(trace, r) ==
    Step(r.result, r.world,
         <<Called("pre_delete_check", trace), Called(RemoverFor(trace), trace)>>)

\* clean_traces: the arm taken when the Safety Gate returns Err(e)
Skipped(trace, gate, w) ==
    Step(CleanResult(trace, FALSE, <<"skip_critical_item">> \o Display(gate), 0),
         w, <<Called("pre_delete_check", trace)>>)

CleanOne(trace, w) ==
    IF ~pre_delete_check(trace).ok
    THEN Skipped(trace, pre_delete_check(trace), w)
    ELSE IF RemoverFor(trace) = "none"
    THEN Step(CleanResult(trace, FALSE, <<"unsupported_trace_type">>, 0), w,
              <<Called("pre_delete_check", trace)>>)
    ELSE Pushed(trace, Dispatch(trace, w))

\* mutant: a Safety Gate rejection ends the loop (break instead of continue)
RECURSIVE CleanLoop(_, _, _, _)

\* the loop continues after an iteration that did `s`
Continue(rest, s, results, calls) ==
    CleanLoop(rest, s.world, Append(results, s.result), calls \o s.calls)

\* mutant: a Safety Gate rejection ends the loop (break instead of continue)
ContinueUnlessRejected(rest, s, results, calls) ==
    IF Len(s.calls) = 1 /\ Len(s.result.error) = 3
    THEN [results |-> Append(results, s.result), world |-> s.world,
          calls |-> calls \o s.calls]
    ELSE Continue(rest, s, results, calls)

CleanLoop_BreakOnReject(traces, w, results, calls) ==
    IF traces = <<>>
    THEN [results |-> results, world |-> w, calls |-> calls]
    ELSE ContinueUnlessRejected(Tail(traces), CleanOne(Head(traces), w), results, calls)

CleanLoop(traces, w, results, calls) ==
    IF traces = <<>>
    THEN [results |-> results, world |-> w, calls |-> calls]
    ELSE Continue(Tail(traces), CleanOne(Head(traces), w), results, calls)

\* mutant: the confirmation is not asked for
clean_traces_Unconfirmed(traces, confirm, w) ==
    [ok |-> TRUE, err |-> OkUnit] @@ CleanLoop(traces, w, <<>>, <<>>)

\* Result<Vec<CleanResult>, UninstallerError>, the world afterwards and the trail
clean_traces(traces, confirm, w) ==
    IF ~confirm
    THEN [ok |-> FALSE, err |-> Err("PermissionDenied", "confirmation_required"),
          results |-> <<>>, world |-> w, calls |-> <<>>]
    ELSE [ok |-> TRUE, err |-> OkUnit] @@ CleanLoop(traces, w, <<>>, <<>>)

(***************************************************************************)
(* Inputs of the cleaner: the traces a caller may hand over, and the       *)
(* worlds clean_traces may find.                                           *)
(***************************************************************************)
\* the paths of the traces
Path ==
    [SysKey |-> <<"H","K","L","M","\\","S","Y","S","T","E","M","\\","A","p","p">>,
     RunValue |-> <<"H","K","L","M","\\","S","O","F","T","W","A","R","E","\\","M","i","c","r","o","s","o","f","t","\\","W","i","n","d","o","w","s","\\","C","u","r","r","e","n","t","V","e","r","s","i","o","n","\\","R","u","n","\\","A","p","p">>,
     AppKey |-> <<"H","K","C","U","\\","S","o","f","t","w","a","r","e","\\","A","p","p">>,
     AppValue |-> <<"H","K","C","U","\\","S","o","f","t","w","a","r","e","\\","A","p","p","\\","V","a","l">>,
     WinFile |-> <<"c",":","\\","w","i","n","d","o","w","s","\\","s","y","s","t","e","m","3","2","\\","a","p","p",".","d","l","l">>,
     AppDir |-> <<"C",":","\\","A","p","p","s","\\","A","p","p">>,
     AppFile |-> <<"C",":","\\","A","p","p","s","\\","A","p","p","\\","a",".","e","x","e">>,
     AppLnk |-> <<"C",":","\\","D","e","s","k","\\","A","p","p",".","l","n","k">>,
     Service |-> <<"A","p","p">>,
     ToolKey |-> <<"H","K","L","M","\\","S","O","F","T","W","A","R","E","\\","T","o","o","l">>,
     AppToolLnk |-> <<"C",":","\\","D","e","s","k","\\","A","p","p"," ","T","o","o","l",".","l","n","k">>,
     MyAppDir |-> <<"C",":","\\","D","a","t","a","\\","M","y","A","p","p">>,
     StarKey |-> <<"H","K","C","R","\\","*","\\","s","h","e","l","l","\\","A","p","p">>,
     SamKey |-> <<"H","K","L","M","\\","S","A","M","\\","A","p","p">>,
     WinAppDir |-> <<"C",":","\\","W","i","n","d","o","w","s","\\","A","p","p">>,
     WindowsAppDir |-> <<"C",":","\\","P","r","o","g","r","a","m"," ","F","i","l","e","s","\\","W","i","n","d","o","w","s"," ","A","p","p">>]

Trace(id, trace_type, path, is_critical) ==
    [id |-> id, trace_type |-> trace_type, path |-> path, is_critical |-> is_critical]

\* the traces handed to clean_traces
T ==
    [SysKey |-> Trace("t-syskey", "RegistryKey", Path.SysKey, FALSE),
     RunValue |-> Trace("t-runvalue", "RegistryValue", Path.RunValue, FALSE),
     AppKey |-> Trace("t-appkey", "RegistryKey", Path.AppKey, FALSE),
     AppValue |-> Trace("t-appvalue", "RegistryValue", Path.AppValue, FALSE),
     WinFile |-> Trace("t-winfile", "File", Path.WinFile, FALSE),
     AppDir |-> Trace("t-appdir", "AppData", Path.AppDir, FALSE),
     AppFile |-> Trace("t-appfile", "File", Path.AppFile, FALSE),
     AppLnk |-> Trace("t-applnk", "Shortcut", Path.AppLnk, FALSE),
     Service |-> Trace("t-service", "Service", Path.Service, FALSE),
     Flagged |-> Trace("t-flagged", "File", Path.AppFile, TRUE)]

Traces ==
    {T.SysKey, T.RunValue, T.AppKey, T.AppValue, T.WinFile, T.AppDir, T.AppFile,
     T.AppLnk, T.Service, T.Flagged}

Batches == UNION {[1..n -> Traces] : n \in 0..MaxBatch}

\* the registry key and value a registry trace path names
KeyOf(path) ==
    LET parsed == parse_registry_path(path)
    IN  [hkey |-> parsed.hkey, path |-> to_uppercase(parsed.subkey)]

ValueOf(path) ==
    LET parsed == parse_registry_path(path)
        at == LastSeparator(parsed.subkey)
    IN  [hkey |-> parsed.hkey,
         key |-> to_uppercase(SubSeq(parsed.subkey, 1, at - 1)),
         name |-> to_uppercase(SubSeq(parsed.subkey, at + 1, Len(parsed.subkey)))]

FileAt(path, len) == [path |-> to_uppercase(path), is_dir |-> FALSE, len |-> len]

DirAt(path) == [path |-> to_uppercase(path), is_dir |-> TRUE, len |-> 0]

RunKey == [hkey |-> ValueOf(Path.RunValue).hkey, path |-> ValueOf(Path.RunValue).key]

\* the application's registry key with or without its value, or no key at all
RegistryStates ==
    {[keys |-> {RunKey, KeyOf(Path.AppKey)},
      values |-> {ValueOf(Path.RunValue), ValueOf(Path.AppValue)}],
     [keys |-> {RunKey, KeyOf(Path.AppKey)}, values |-> {ValueOf(Path.RunValue)}],
     [keys |-> {RunKey}, values |-> {ValueOf(Path.RunValue)}]}

\* the application's directory with or without its file, or no directory at all
FsStates ==
    {{DirAt(Path.AppDir), FileAt(Path.AppFile, 5), FileAt(Path.AppLnk, 1)},
     {DirAt(Path.AppDir), FileAt(Path.AppLnk, 1)},
     {FileAt(Path.AppLnk, 1)}}

Worlds ==
    {[keys |-> r.keys, values |-> r.values, fs |-> f, deny |-> d] :
        r \in RegistryStates, f \in FsStates, d \in SUBSET {"reg", "fs", "stat"}}

NoCall ==
    [state |-> "idle", traces |-> <<>>, confirm |-> FALSE, ok |-> FALSE, err |-> OkUnit,
     results |-> <<>>, calls |-> <<>>]

(***************************************************************************)
(* Option<T> is a sequence of at most one element; chrono timestamps.      *)
(***************************************************************************)
None == <<>>

Some(x) == <<x>>

is_some(o) == o # None

unwrap_or_default(o, default) == IF o = None THEN default ELSE o[1]

\* DateTime<Utc>::to_rfc3339 keeps the sub-second part of the instant; an
\* instant is a number of clock ticks
to_rfc3339(instant) == <<"rfc3339", instant>>

\* DateTime::parse_from_rfc3339: the instant, or None for the Err
parse_from_rfc3339(text) ==
    IF Len(text) = 2 /\ text[1] = "rfc3339" THEN Some(text[2]) ELSE None

\* a metadata value that is not a timestamp
NotATimestamp == <<"text", 0>>

\* Duration::num_seconds: whole seconds, truncated toward zero
num_seconds(ticks) ==
    IF ticks >= 0
    THEN ticks \div TicksPerSecond
    ELSE 0 - ((0 - ticks) \div TicksPerSecond)

(***************************************************************************)
(* u32 to and from decimal text (str::parse::<u32>, u32::to_string).       *)
(***************************************************************************)
Digits == <<"0","1","2","3","4","5","6","7","8","9">>

DigitTable ==
    [c \in {Digits[i] : i \in DOMAIN Digits} |->
        (CHOOSE i \in DOMAIN Digits : Digits[i] = c) - 1]

RECURSIVE DecimalValue(_)
DecimalValue(s) ==
    IF s = <<>>
    THEN 0
    ELSE DecimalValue(SubSeq(s, 1, Len(s) - 1)) * 10 + DigitTable[s[Len(s)]]

UnsignedDigits(s) == IF s # <<>> /\ Head(s) = "+" THEN Tail(s) ELSE s

\* value.parse::<u32>().ok(): an optional plus sign and decimal digits; up to
\* nine digits are modelled, all of which fit a u32
parse_u32(s) ==
    IF /\ UnsignedDigits(s) # <<>>
       /\ Len(UnsignedDigits(s)) <= 9
       /\ \A i \in DOMAIN UnsignedDigits(s) : UnsignedDigits(s)[i] \in DOMAIN DigitTable
    THEN Some(DecimalValue(UnsignedDigits(s)))
    ELSE None

RECURSIVE u32_to_string(_)
u32_to_string(n) ==
    IF n < 10
    THEN <<Digits[n + 1]>>
    ELSE Append(u32_to_string(n \div 10), Digits[(n % 10) + 1])

(***************************************************************************)
(* Ordering of names: str::cmp on the lowercased name (dedupe_and_sort)    *)
(* and SQLite's COLLATE NOCASE (read_scan_cache) agree on ASCII text.      *)
(***************************************************************************)
\* the place of a character in the ASCII order: space, digits, capitals, small letters
AsciiRank ==
    LET order == <<" ">> \o Digits \o UpperAlphabet \o LowerAlphabet
    IN  [c \in {order[i] : i \in DOMAIN order} |->
            CHOOSE i \in DOMAIN order : order[i] = c]

RECURSIVE str_lt(_, _)
str_lt(a, b) ==
    IF b = <<>> THEN FALSE
    ELSE IF a = <<>> THEN TRUE
    ELSE IF a[1] = b[1] THEN str_lt(Tail(a), Tail(b))
    ELSE AsciiRank[a[1]] < AsciiRank[b[1]]

(***************************************************************************)
(* InstalledProgram (lister/models.rs).                                    *)
(***************************************************************************)
\* impl Display for InstallSource
InstallSourceDisplay ==
    [Registry |-> "Registry", Msi |-> "MSI", Store |-> "Store", Unknown |-> "Unknown"]

\* MetadataConfidence::score
score == [high |-> 4, medium |-> 3, low |-> 2, unknown |-> 1]

\* min_by_key keeps the first of the values with the lowest score
RECURSIVE lowest(_)
lowest(values) ==
    IF values = <<>> THEN "unknown"
    ELSE IF Len(values) = 1 THEN values[1]
    ELSE IF score[lowest(Tail(values))] < score[Head(values)]
         THEN lowest(Tail(values))
         ELSE Head(values)

\* InstalledProgram::new; the id is the fresh uuid
InstalledProgram_new(id, name, source) ==
    [id |-> id, name |-> name, publisher |-> None, version |-> None,
     install_date |-> None, install_location |-> None, uninstall_string |-> None,
     install_source |-> source, size |-> None, icon_path |-> None,
     icon_cache_path_32 |-> None, icon_cache_path_48 |-> None,
     size_last_updated_at |-> None, icon_data_url |-> None,
     icon_data_url_32 |-> None, icon_data_url_48 |-> None,
     estimated_size |-> None, display_version |-> None, url_info_about |-> None,
     help_link |-> None, install_date_source |-> "unknown",
     install_date_confidence |-> "unknown", icon_source |-> "unknown",
     icon_confidence |-> "unknown", size_source |-> "unknown",
     size_confidence |-> "unknown", metadata_confidence |-> "unknown"]

\* what a field absent from the JSON deserializes to
FieldDefault == InstalledProgram_new("", <<>>, "Unknown")

\* serde_json::to_string(program): a JSON object with every field
serde_json_to_string(program) == [json |-> program]

\* serde_json::from_str::<InstalledProgram>: the program, or None for the Err;
\* id and name are the fields without #[serde(default)] that are not Options
serde_json_from_str(payload) ==
    IF DOMAIN payload = {"json"} /\ {"id", "name"} \subseteq DOMAIN payload.json
    THEN Some([f \in DOMAIN FieldDefault |->
                  IF f \in DOMAIN payload.json THEN payload.json[f] ELSE FieldDefault[f]])
    ELSE None

(***************************************************************************)
(* The Scan Cache (lister/storage.rs).  The cache file is                  *)
(*   exists : the SQLite file is on disk                                   *)
(*   rows   : installed_programs_cache, one row per cache_key (PRIMARY KEY)*)
(*   meta   : cache_metadata, the value stored under each key, if any      *)
(* Of a row, the columns the code reads back are kept: payload_json, and   *)
(* name for the ORDER BY.                                                  *)
(***************************************************************************)
CACHE_SCHEMA_VERSION == 4

DEFAULT_CACHE_TTL_SECONDS == 900

NoCacheFile ==
    [exists |-> FALSE, rows |-> {},
     meta |-> [schema_version |-> None, generated_at |-> None]]

\* UninstallerError::Other(format!("{context}: {error}"))
map_sqlite_error(context) == Err("Other", context)

\* Connection::open creates the file; CREATE TABLE IF NOT EXISTS keeps the tables
open_scan_cache_connection(s) == [s EXCEPT !.exists = TRUE]

read_cache_metadata(s, key) == s.meta[key]

\* INSERT .. ON CONFLICT(key) DO UPDATE SET value
write_cache_metadata(s, key, value) == [s EXCEPT !.meta[key] = Some(value)]

\* the DefaultHasher digest of the five hashed values, taken as injective
build_program_cache_key(program) ==
    <<to_lowercase(program.name),
      to_lowercase(unwrap_or_default(program.publisher, <<>>)),
      to_lowercase(unwrap_or_default(program.uninstall_string, <<>>)),
      to_lowercase(unwrap_or_default(program.install_location, <<>>)),
      InstallSourceDisplay[program.install_source]>>

\* mutant: the payload is written without the icon cache paths
CacheRow_NoIconPaths(program) ==
    [cache_key |-> build_program_cache_key(program),
     name |-> program.name,
     payload_json |-> serde_json_to_string(
        [program EXCEPT !.icon_cache_path_32 = None, !.icon_cache_path_48 = None])]

CacheRow(program) ==
    [cache_key |-> build_program_cache_key(program),
     name |-> program.name,
     payload_json |-> serde_json_to_string(program)]

\* the INSERT of each entry in turn; a second row with a cache_key already
\* in the table violates the PRIMARY KEY and the statement fails
RECURSIVE InsertEntries(_, _)
InsertEntries(entries, rows) ==
    IF entries = <<>>
    THEN [ok |-> TRUE, rows |-> rows]
    ELSE IF \E row \in rows : row.cache_key = build_program_cache_key(Head(entries))
         THEN [ok |-> FALSE, rows |-> rows]
         ELSE InsertEntries(Tail(entries), rows \cup {CacheRow(Head(entries))})

\* mutant: the rows of the cache file are kept next to the inserted ones
Committed_KeepsOldRows(inserted, s, instant) ==
    IF inserted.ok
    THEN [ok |-> TRUE, err |-> OkUnit,
          store |-> write_cache_metadata(
                        write_cache_metadata(
                            [s EXCEPT !.rows = s.rows \cup inserted.rows],
                            "schema_version", u32_to_string(CACHE_SCHEMA_VERSION)),
                        "generated_at", to_rfc3339(instant))]
    ELSE [ok |-> FALSE, err |-> map_sqlite_error("save_scan_cache"), store |-> s]

\* the end of the transaction: both metadata rows and the commit, or the
\* rollback when the transaction is dropped by the early return
Committed(inserted, s, instant) ==
    IF inserted.ok
    THEN [ok |-> TRUE, err |-> OkUnit,
          store |-> write_cache_metadata(
                        write_cache_metadata([s EXCEPT !.rows = inserted.rows],
                            "schema_version", u32_to_string(CACHE_SCHEMA_VERSION)),
                        "generated_at", to_rfc3339(instant))]
    ELSE [ok |-> FALSE, err |-> map_sqlite_error("save_scan_cache"), store |-> s]

\* Result<(), UninstallerError> and the cache file afterwards
save_scan_cache(entries, s, instant) ==
    Committed(InsertEntries(entries, {}), open_scan_cache_connection(s), instant)

ScanCacheReadResult_default ==
    [entries |-> None, cache_hit |-> FALSE, cache_valid |-> FALSE,
     schema_version |-> CACHE_SCHEMA_VERSION, generated_at |-> None, reason |-> None]

MissResult(reason, schema_version, generated_at) ==
    [ScanCacheReadResult_default EXCEPT
        !.schema_version = schema_version,
        !.generated_at = generated_at,
        !.reason = Some(reason)]

\* SELECT .. ORDER BY name COLLATE NOCASE: the row no other row precedes
FirstByName(rows) ==
    CHOOSE row \in rows :
        \A other \in rows : ~str_lt(to_lowercase(other.name), to_lowercase(row.name))

RECURSIVE OrderByName(_)
OrderByName(rows) ==
    IF rows = {}
    THEN <<>>
    ELSE <<FirstByName(rows)>> \o OrderByName(rows \ {FirstByName(rows)})

\* the programs of the rows whose payload deserializes; the others are skipped
RECURSIVE ParsedPrograms(_)
ParsedPrograms(rows) ==
    IF rows = <<>>
    THEN <<>>
    ELSE serde_json_from_str(Head(rows).payload_json) \o ParsedPrograms(Tail(rows))

ReadPrograms(programs, schema_version, generated_at_value) ==
    IF programs = <<>>
    THEN MissResult("cache_empty", schema_version, Some(generated_at_value))
    ELSE [entries |-> Some(programs), cache_hit |-> TRUE, cache_valid |-> TRUE,
          schema_version |-> schema_version,
          generated_at |-> Some(generated_at_value), reason |-> None]

ReadFresh(ttl_seconds, s, instant, schema_version, generated_at_value, generated_at_time) ==
    IF num_seconds(instant - generated_at_time) >
            (IF ttl_seconds >= 1 THEN ttl_seconds ELSE 1)
    THEN MissResult("cache_expired", schema_version, Some(generated_at_value))
    ELSE ReadPrograms(ParsedPrograms(OrderByName(s.rows)), schema_version,
                      generated_at_value)

\* mutant: a timestamp that does not parse is reported as expired
ReadTimestamp_ExpiredOnParseFailure(ttl_seconds, s, instant, schema_version, generated_at_value) ==
    IF parse_from_rfc3339(generated_at_value) = None
    THEN MissResult("cache_expired", schema_version, Some(generated_at_value))
    ELSE ReadFresh(ttl_seconds, s, instant, schema_version, generated_at_value,
                   parse_from_rfc3339(generated_at_value)[1])

ReadTimestamp(ttl_seconds, s, instant, schema_version, generated_at_value) ==
    IF parse_from_rfc3339(generated_at_value) = None
    THEN MissResult("cache_invalid_generated_at", schema_version,
                    Some(generated_at_value))
    ELSE ReadFresh(ttl_seconds, s, instant, schema_version, generated_at_value,
                   parse_from_rfc3339(generated_at_value)[1])

ReadMetadata(ttl_seconds, s, instant, schema_version, generated_at) ==
    IF schema_version # CACHE_SCHEMA_VERSION
    THEN MissResult("schema_mismatch", schema_version, generated_at)
    ELSE IF generated_at = None
         THEN MissResult("cache_missing_generated_at", schema_version, None)
         ELSE ReadTimestamp(ttl_seconds, s, instant, schema_version, generated_at[1])

\* mutant: a value that is absent or not a number counts as the current version
StoredSchemaVersion_DefaultCurrent(s) ==
    IF read_cache_metadata(s, "schema_version") = None
    THEN CACHE_SCHEMA_VERSION
    ELSE unwrap_or_default(parse_u32(read_cache_metadata(s, "schema_version")[1]),
                           CACHE_SCHEMA_VERSION)

\* .and_then(|value| value.parse::<u32>().ok()).unwrap_or_default()
StoredSchemaVersion(s) ==
    IF read_cache_metadata(s, "schema_version") = None
    THEN 0
    ELSE unwrap_or_default(parse_u32(read_cache_metadata(s, "schema_version")[1]), 0)

\* the Ok(ScanCacheReadResult) of read_scan_cache at `instant`
read_scan_cache(ttl_seconds, s, instant) ==
    IF ~s.exists
    THEN MissResult("cache_missing", CACHE_SCHEMA_VERSION, None)
    ELSE ReadMetadata(ttl_seconds, s, instant, StoredSchemaVersion(s),
                      read_cache_metadata(s, "generated_at"))

(***************************************************************************)
(* Metadata enrichment (lister/enrichment.rs) over a fixed disk: three     *)
(* icon files exist, and two install directories, each holding one .exe    *)
(* (of 512 bytes in one, empty in the other).  A directory scan of any     *)
(* other location returns at its existence check.  One of the icon files   *)
(* cannot be rasterized.                                                   *)
(***************************************************************************)
\* the icon cache files resolve_icon_cache_paths names for a source file
\* and a resource index: the cache key hashes both
IconCacheFiles(stem, icon_index) ==
    [icon_cache_path_32 |->
        Some(IF icon_index = 0 THEN "icon-cache\\32\\" \o stem \o "-0.png"
                               ELSE "icon-cache\\32\\" \o stem \o "-1.png"),
     icon_cache_path_48 |->
        Some(IF icon_index = 0 THEN "icon-cache\\48\\" \o stem \o "-0.png"
                               ELSE "icon-cache\\48\\" \o stem \o "-1.png")]

\* the icon files on the disk: the name of the cache key of each, and whether
\* generate_icon_cache_files succeeds on it
IconFilesOnDisk ==
    [p \in {"C:\\Apps\\App\\app.ico", "C:\\Apps\\Tool\\tool.exe",
            "C:\\Apps\\Link\\link.exe"} |->
        IF p = "C:\\Apps\\App\\app.ico" THEN [stem |-> "app", rasterizes |-> TRUE]
        ELSE IF p = "C:\\Apps\\Tool\\tool.exe" THEN [stem |-> "tool", rasterizes |-> TRUE]
        ELSE [stem |-> "link", rasterizes |-> FALSE]]

\* the DisplayIcon values that are more than a plain path, and what
\* extract_icon_path_candidate_with_index makes of each
DisplayIconValues ==
    [raw \in {"C:\\Apps\\Tool\\tool.exe,1", "\"C:\\Apps\\App\\app.ico\",0"} |->
        IF raw = "C:\\Apps\\Tool\\tool.exe,1"
        THEN <<"C:\\Apps\\Tool\\tool.exe", 1>>
        ELSE <<"C:\\Apps\\App\\app.ico", 0>>]

\* (path, index): a quoted path or a path with a `,N` suffix loses the quotes
\* and gives N; a plain path is its own candidate with index 0
extract_icon_path_candidate_with_index(raw) ==
    IF raw = "" THEN None
    ELSE IF raw \in DOMAIN DisplayIconValues THEN Some(DisplayIconValues[raw])
    ELSE Some(<<raw, 0>>)

extract_icon_path_candidate(raw) ==
    IF extract_icon_path_candidate_with_index(raw) = None THEN None
    ELSE Some(extract_icon_path_candidate_with_index(raw)[1][1])

\* the install directories on the disk: the file read_dir finds in each and
\* the size calculate_directory_size_limited adds up
InstallDirsOnDisk ==
    [d \in {"C:\\Apps\\Tool", "C:\\Apps\\Link"} |->
        IF d = "C:\\Apps\\Tool"
        THEN [icon |-> Some("C:\\Apps\\Tool\\tool.exe"), size |-> 512]
        ELSE [icon |-> Some("C:\\Apps\\Link\\link.exe"), size |-> 0]]

\* the dates NaiveDate::parse_from_str accepts in one of the four formats,
\* formatted as %Y-%m-%d
NormalizedDates ==
    [raw \in {"20240115", "2024-01-15", "2024/01/15", "01/15/2024"} |-> "2024-01-15"]

normalize_install_date(raw) ==
    IF raw \in DOMAIN NormalizedDates THEN Some(NormalizedDates[raw]) ELSE None

\* the candidate of the value, if the file exists
sanitize_icon_path(raw) ==
    IF extract_icon_path_candidate(raw) = None THEN None
    ELSE IF extract_icon_path_candidate(raw)[1] \in DOMAIN IconFilesOnDisk
    THEN extract_icon_path_candidate(raw)
    ELSE None

\* `!root.exists()` returns None; else the .ico, or the first .exe or .dll
find_icon_from_install_location(install_location) ==
    IF install_location = None THEN None
    ELSE IF install_location[1] \notin DOMAIN InstallDirsOnDisk THEN None
    ELSE InstallDirsOnDisk[install_location[1]].icon

\* the cache files of (resolved_path, icon_index); None if the file does
\* not exist or generate_icon_cache_files fails
IconAssetBundle(resolved) ==
    IF resolved[1] \notin DOMAIN IconFilesOnDisk THEN None
    ELSE IF ~IconFilesOnDisk[resolved[1]].rasterizes THEN None
    ELSE Some(IconCacheFiles(IconFilesOnDisk[resolved[1]].stem, resolved[2]))

build_icon_assets_from_path(icon_path) ==
    IconAssetBundle(unwrap_or_default(extract_icon_path_candidate_with_index(icon_path),
                                      <<icon_path, 0>>))

and_then_sanitize(icon_path) ==
    IF icon_path = None THEN None ELSE sanitize_icon_path(icon_path[1])

EnrichInstallDate(program) ==
    IF program.install_date = None
    THEN [program EXCEPT !.install_date_source = "unknown",
                         !.install_date_confidence = "unknown"]
    ELSE IF normalize_install_date(program.install_date[1]) = None
         THEN [program EXCEPT !.install_date = None,
                              !.install_date_source = "registry",
                              !.install_date_confidence = "low"]
         ELSE [program EXCEPT !.install_date =
                                  normalize_install_date(program.install_date[1]),
                              !.install_date_source = "registry",
                              !.install_date_confidence = "high"]

NoIconData(program) ==
    [program EXCEPT !.icon_data_url = None, !.icon_data_url_32 = None,
                    !.icon_data_url_48 = None]

WithIconAssets(program, icon_assets) ==
    IF icon_assets = None
    THEN [NoIconData(program) EXCEPT !.icon_cache_path_32 = None,
                                     !.icon_cache_path_48 = None]
    ELSE [NoIconData(program) EXCEPT
            !.icon_cache_path_32 = icon_assets[1].icon_cache_path_32,
            !.icon_cache_path_48 = icon_assets[1].icon_cache_path_48]

WithIconSource(program, from_registry) ==
    IF from_registry
    THEN [program EXCEPT !.icon_source = "registry", !.icon_confidence = "high"]
    ELSE [program EXCEPT !.icon_source = "filesystem", !.icon_confidence = "medium"]

\* sanitized_icon is the DisplayIcon that exists, else the install directory's
EnrichIconWith(program, sanitized_icon) ==
    IF sanitized_icon = None
    THEN [NoIconData(program) EXCEPT !.icon_path = None,
                                     !.icon_cache_path_32 = None,
                                     !.icon_cache_path_48 = None,
                                     !.icon_source = "unknown",
                                     !.icon_confidence = "low"]
    ELSE WithIconSource(
            WithIconAssets([program EXCEPT !.icon_path = sanitized_icon],
                build_icon_assets_from_path(
                    unwrap_or_default(program.icon_path, sanitized_icon[1]))),
            is_some(and_then_sanitize(program.icon_path)))

EnrichIcon(program) ==
    EnrichIconWith(program,
        IF is_some(and_then_sanitize(program.icon_path))
        THEN and_then_sanitize(program.icon_path)
        ELSE find_icon_from_install_location(program.install_location))

\* (size, source, confidence): EstimatedSize, else a positive size of the
\* install directory, else (None, Unknown, Low)
resolve_program_size(program) ==
    IF is_some(program.estimated_size)
    THEN <<program.estimated_size, "registry", "high">>
    ELSE IF program.install_location = None THEN <<None, "unknown", "low">>
    ELSE IF program.install_location[1] \notin DOMAIN InstallDirsOnDisk
         THEN <<None, "unknown", "low">>
    ELSE IF InstallDirsOnDisk[program.install_location[1]].size > 0
         THEN <<Some(InstallDirsOnDisk[program.install_location[1]].size),
                "filesystem", "medium">>
         ELSE <<None, "unknown", "low">>

EnrichSize(program, instant) ==
    [program EXCEPT
        !.size = resolve_program_size(program)[1],
        !.size_source = resolve_program_size(program)[2],
        !.size_confidence = resolve_program_size(program)[3],
        !.size_last_updated_at =
            IF is_some(resolve_program_size(program)[1])
            THEN Some(to_rfc3339(instant))
            ELSE @]

WithMetadataConfidence_SkipsSize(program) ==
    [program EXCEPT !.metadata_confidence =
        lowest(<<program.install_date_confidence, program.icon_confidence>>)]

WithMetadataConfidence(program) ==
    [program EXCEPT !.metadata_confidence =
        lowest(<<program.install_date_confidence, program.icon_confidence,
                 program.size_confidence>>)]

enrich_program(program, instant) ==
    WithMetadataConfidence(EnrichSize(EnrichIcon(EnrichInstallDate(program)), instant))

enrich_programs(programs, instant) ==
    [i \in 1..Len(programs) |-> enrich_program(programs[i], instant)]

(***************************************************************************)
(* The Program Lister (lister/mod.rs).                                     *)
(***************************************************************************)
\* SkimMatcherV2::fuzzy_match(text, pattern).is_some(): the characters of
\* the pattern occur in the text in order
RECURSIVE fuzzy_match(_, _)
fuzzy_match(text, pattern) ==
    IF pattern = <<>> THEN TRUE
    ELSE IF text = <<>> THEN FALSE
    ELSE IF Head(text) = Head(pattern) THEN fuzzy_match(Tail(text), Tail(pattern))
    ELSE fuzzy_match(Tail(text), pattern)

SearchMatches(program, normalized_query) ==
    \/ fuzzy_match(to_lowercase(program.name), normalized_query)
    \/ /\ is_some(program.publisher)
       /\ fuzzy_match(to_lowercase(program.publisher[1]), normalized_query)

apply_search_filter(programs, search) ==
    IF search = None
    THEN programs
    ELSE SelectSeq(programs, LAMBDA p : SearchMatches(p, to_lowercase(search[1])))

\* retain(|program| seen.insert(program.name.to_lowercase()))
RECURSIVE RetainUnseen(_, _)
RetainUnseen(programs, seen) ==
    IF programs = <<>> THEN <<>>
    ELSE IF to_lowercase(Head(programs).name) \in seen
         THEN RetainUnseen(Tail(programs), seen)
         ELSE <<Head(programs)>> \o
              RetainUnseen(Tail(programs), seen \cup {to_lowercase(Head(programs).name)})

RECURSIVE InsertByName(_, _)
InsertByName(sorted, program) ==
    IF sorted = <<>> THEN <<program>>
    ELSE IF str_lt(to_lowercase(program.name), to_lowercase(Head(sorted).name))
         THEN <<program>> \o sorted
         ELSE <<Head(sorted)>> \o InsertByName(Tail(sorted), program)

\* the stable sort_by on the lowercased name
RECURSIVE SortByName(_)
SortByName(programs) ==
    IF programs = <<>> THEN <<>>
    ELSE InsertByName(SortByName(SubSeq(programs, 1, Len(programs) - 1)),
                      programs[Len(programs)])

dedupe_and_sort(programs) == SortByName(RetainUnseen(programs, {}))

\* mutant: every source is taken as cacheable
is_cache_eligible_AnySource(source) == source = source

is_cache_eligible(source) == source = None \/ source = Some("Registry")

\* what list_msi_products finds
MsiProducts ==
    <<[InstalledProgram_new("id-tool", <<"T","o","o","l">>, "Msi") EXCEPT
        !.publisher = Some(<<"A","c","m","e">>)]>>

\* the one lister of the selected source (Registry for None); the Store
\* lister finds nothing and Unknown has no lister
collect_programs(source, registry_programs) ==
    IF source = None \/ source = Some("Registry") THEN registry_programs
    ELSE IF source = Some("Msi") THEN MsiProducts
    ELSE <<>>

ProgramListCacheState_default ==
    [cache_hit |-> FALSE, cache_valid |-> FALSE, refreshed |-> FALSE,
     schema_version |-> 0, generated_at |-> None, reason |-> None]

InitialCacheState ==
    [ProgramListCacheState_default EXCEPT !.schema_version = CACHE_SCHEMA_VERSION]

CacheStateAfterRead(cached) ==
    [InitialCacheState EXCEPT !.schema_version = cached.schema_version,
                              !.generated_at = cached.generated_at,
                              !.reason = cached.reason]

NoResponse == [programs |-> <<>>, cache |-> ProgramListCacheState_default]

\* mutant: the cached programs are returned without the search filter
ServeCached_Unfiltered(query, cached, s) ==
    [ok |-> TRUE, err |-> OkUnit, store |-> s, cached |-> Some(cached),
     rescanned |-> FALSE,
     response |->
        [programs |-> unwrap_or_default(cached.entries, <<>>),
         cache |-> [CacheStateAfterRead(cached) EXCEPT
                        !.cache_hit = TRUE, !.cache_valid = TRUE,
                        !.refreshed = FALSE]]]

\* the early return on a valid hit
ServeCached(query, cached, s) ==
    [ok |-> TRUE, err |-> OkUnit, store |-> s, cached |-> Some(cached),
     rescanned |-> FALSE,
     response |->
        [programs |-> apply_search_filter(unwrap_or_default(cached.entries, <<>>),
                                          query.search),
         cache |-> [CacheStateAfterRead(cached) EXCEPT
                        !.cache_hit = TRUE, !.cache_valid = TRUE,
                        !.refreshed = FALSE]]]

RefreshedReason(query, cache_state) ==
    IF query.refresh THEN Some("force_refresh")
    ELSE IF cache_state.reason = None THEN Some("cache_rebuilt")
    ELSE cache_state.reason

\* after save_scan_cache(&all_programs)?; `stamp` is the Utc::now() that follows
AfterSave(query, cache_state, cached, all_programs, saved, stamp) ==
    IF ~saved.ok
    THEN [ok |-> FALSE, err |-> saved.err, store |-> saved.store, cached |-> cached,
          rescanned |-> TRUE, response |-> NoResponse]
    ELSE [ok |-> TRUE, err |-> OkUnit, store |-> saved.store, cached |-> cached,
          rescanned |-> TRUE,
          response |->
            [programs |-> apply_search_filter(all_programs, query.search),
             cache |-> [cache_hit |-> FALSE, cache_valid |-> TRUE,
                        refreshed |-> TRUE,
                        schema_version |-> CACHE_SCHEMA_VERSION,
                        generated_at |-> Some(to_rfc3339(stamp)),
                        reason |-> RefreshedReason(query, cache_state)]]]

\* mutant: the reason of the initial cache state is kept
NotCacheable_NoReason(query, cache_state, cached, all_programs, s) ==
    [ok |-> TRUE, err |-> OkUnit, store |-> s, cached |-> cached,
     rescanned |-> TRUE,
     response |->
        [programs |-> apply_search_filter(all_programs, query.search),
         cache |-> [cache_state EXCEPT !.cache_hit = FALSE, !.cache_valid = FALSE,
                                       !.refreshed = FALSE]]]

NotCacheable(query, cache_state, cached, all_programs, s) ==
    [ok |-> TRUE, err |-> OkUnit, store |-> s, cached |-> cached,
     rescanned |-> TRUE,
     response |->
        [programs |-> apply_search_filter(all_programs, query.search),
         cache |-> [cache_state EXCEPT !.cache_hit = FALSE, !.cache_valid = FALSE,
                                       !.refreshed = FALSE,
                                       !.reason = Some("source_not_cacheable")]]]

\* mutant: the programs are filtered by the search before they are saved
RescanWith_SavesFiltered(query, cache_state, cached, all_programs, s, instant) ==
    IF is_cache_eligible(query.source)
    THEN AfterSave(query, cache_state, cached, all_programs,
                   save_scan_cache(apply_search_filter(all_programs, query.search),
                                   s, instant), instant)
    ELSE NotCacheable(query, cache_state, cached, all_programs, s)

RescanWith(query, cache_state, cached, all_programs, s, instant) ==
    IF is_cache_eligible(query.source)
    THEN AfterSave(query, cache_state, cached, all_programs,
                   save_scan_cache(all_programs, s, instant), instant)
    ELSE NotCacheable(query, cache_state, cached, all_programs, s)

\* collect, enrich, dedupe and sort, then save if the source is cacheable
Rescan(query, cache_state, cached, s, instant, registry_programs) ==
    RescanWith(query, cache_state, cached,
        dedupe_and_sort(enrich_programs(
            collect_programs(query.source, registry_programs), instant)),
        s, instant)

AfterCacheRead(query, cached, s, instant, registry_programs) ==
    IF cached.cache_hit /\ cached.cache_valid
    THEN ServeCached(query, cached, s)
    ELSE Rescan(query, CacheStateAfterRead(cached), Some(cached), s, instant,
                registry_programs)

EffectiveTtl(cache_ttl_seconds) ==
    IF cache_ttl_seconds <= 0 THEN DEFAULT_CACHE_TTL_SECONDS ELSE cache_ttl_seconds

\* mutant: the cache is read whatever `refresh` is
list_programs_with_cache_IgnoresRefresh(query, s, instant, registry_programs) ==
    IF is_cache_eligible(query.source)
    THEN AfterCacheRead(query,
            read_scan_cache(EffectiveTtl(query.cache_ttl_seconds), s, instant),
            s, instant, registry_programs)
    ELSE Rescan(query, InitialCacheState, None, s, instant, registry_programs)

\* Result<ProgramListResponse, UninstallerError>, the cache file afterwards,
\* the result of the cache read if one was made, and whether the listers ran
list_programs_with_cache(query, s, instant, registry_programs) ==
    IF is_cache_eligible(query.source) /\ ~query.refresh
    THEN AfterCacheRead(query,
            read_scan_cache(EffectiveTtl(query.cache_ttl_seconds), s, instant),
            s, instant, registry_programs)
    ELSE Rescan(query, InitialCacheState, None, s, instant, registry_programs)

(***************************************************************************)
(* Inputs of the cache model.                                              *)
(***************************************************************************)
\* names, a publisher and a search text
Text ==
    [Demo |-> <<"D","e","m","o">>, DemoLower |-> <<"d","e","m","o">>,
     App |-> <<"A","p","p">>, Acme |-> <<"A","c","m","e">>, Dm |-> <<"D","m">>,
     Tool |-> <<"T","o","o","l">>]

\* programs handed to save_scan_cache: the one of
\* read_scan_cache_restores_icon_paths_and_size_timestamp, the same program
\* under a name that differs in case only, and a second program
SavedProgram ==
    [Demo |->
        [InstalledProgram_new("id-demo", Text.Demo, "Registry") EXCEPT
            !.icon_cache_path_32 = Some("C:\\cache\\icon\\32\\demo.png"),
            !.icon_cache_path_48 = Some("C:\\cache\\icon\\48\\demo.png"),
            !.size_last_updated_at = Some(to_rfc3339(0)),
            !.size = Some(4096)],
     DemoLower |->
        [InstalledProgram_new("id-demo-lower", Text.DemoLower, "Registry") EXCEPT
            !.icon_cache_path_32 = Some("C:\\cache\\icon\\32\\demo.png"),
            !.icon_cache_path_48 = Some("C:\\cache\\icon\\48\\demo.png"),
            !.size_last_updated_at = Some(to_rfc3339(0)),
            !.size = Some(4096)],
     App |->
        [InstalledProgram_new("id-app", Text.App, "Registry") EXCEPT
            !.publisher = Some(Text.Acme)]]

\* the lists handed to save_scan_cache
EntryLists ==
    UNION {[1..n -> {SavedProgram.Demo, SavedProgram.DemoLower, SavedProgram.App}] :
              n \in 0..MaxEntries}

\* what parse_registry_entry makes of three uninstall entries
RegistryEntry ==
    [Demo |->
        [InstalledProgram_new("id-r-demo", Text.Demo, "Registry") EXCEPT
            !.estimated_size = Some(2048), !.size = Some(2048),
            !.size_source = "registry", !.size_confidence = "high"],
     DemoLower |-> InstalledProgram_new("id-r-demo-lower", Text.DemoLower, "Registry"),
     App |->
        [InstalledProgram_new("id-r-app", Text.App, "Registry") EXCEPT
            !.publisher = Some(Text.Acme),
            !.install_date = Some("20240115"),
            !.install_date_source = "registry", !.install_date_confidence = "medium",
            !.icon_path = Some("C:\\Apps\\App\\app.ico"),
            !.icon_source = "registry", !.icon_confidence = "medium"]]

\* what list_registry_programs returns: nothing installed, or three entries
\* of which two share a name up to case
Inventories ==
    {<<>>, <<RegistryEntry.DemoLower, RegistryEntry.App, RegistryEntry.Demo>>}

Queries ==
    [source : {None, Some("Registry"), Some("Msi")},
     search : {None, Some(Text.Dm)},
     refresh : BOOLEAN,
     cache_ttl_seconds : {0, 1}]
    \cup
    [source : {Some("Store"), Some("Unknown")},
     search : {None},
     refresh : BOOLEAN,
     cache_ttl_seconds : {0}]

TtlInputs == {0, 1, DEFAULT_CACHE_TTL_SECONDS}

\* metadata written through write_cache_metadata by something other than
\* save_scan_cache, as read_scan_cache_detects_schema_mismatch does
ForeignMetadata(instant) ==
    {<<"schema_version", <<"9","9","9">>>>,
     <<"schema_version", <<"a","b","c">>>>,
     <<"schema_version", u32_to_string(CACHE_SCHEMA_VERSION)>>,
     <<"generated_at", NotATimestamp>>,
     <<"generated_at", to_rfc3339(instant)>>}

\* the record of the last operation on the cache
NoOperation ==
    [name |-> "none", ok |-> FALSE, err |-> OkUnit, entries |-> <<>>, ttl |-> 0,
     query |-> [source |-> None, search |-> None, refresh |-> FALSE,
                cache_ttl_seconds |-> 0],
     key |-> "", pre |-> NoCacheFile, at |-> 0,
     read |-> None, response |-> NoResponse, rescanned |-> FALSE,
     prev |-> [name |-> "none", ok |-> FALSE, entries |-> <<>>, at |-> 0]]

BareWorld == [keys |-> {}, values |-> {}, fs |-> {}, deny |-> {}]

\* the variables of a part of the program that does not run
Idle ==
    [writer |-> [pc |-> "idle", entries |-> <<>>, rows |-> {}, stamp |-> 0,
                 pre |-> NoCacheFile, ok |-> TRUE, saves |-> 0],
     reader |-> [pc |-> "idle", ttl_seconds |-> 0, schema_version |-> 0,
                 generated_at |-> None, instant |-> 0, seen |-> {},
                 result |-> ScanCacheReadResult_default],
     scan |-> [phase |-> "idle", program_name |-> <<>>, types |-> {},
               tasks |-> [source \in {"registry", "filesystem", "appdata", "shortcuts"} |->
                            [pc |-> "none", traces |-> <<>>]],
               lock |-> "", collector |-> <<>>, unfinished |-> {},
               merged |-> <<>>, ok |-> TRUE, result |-> <<>>],
     snapshot |-> [exists |-> FALSE, content |-> <<>>]]

(***************************************************************************)
(* The cleaner's specification: clean_traces applied once to a batch, in   *)
(* any of the worlds.  `call.pre` keeps the world as the call found it.    *)
(***************************************************************************)
InitCleaner ==
    /\ world \in Worlds
    /\ call = NoCall @@ [pre |-> world]
    /\ store = NoCacheFile
    /\ now = 0
    /\ installed = <<>>
    /\ last = NoOperation
    /\ writer = Idle.writer /\ reader = Idle.reader
    /\ scan = Idle.scan /\ snapshot = Idle.snapshot

\* clean_traces has returned `out`
Returned(traces, confirm, out) ==
    /\ world' = out.world
    /\ call' = [state |-> "done", traces |-> traces, confirm |-> confirm,
                ok |-> out.ok, err |-> out.err, results |-> out.results,
                calls |-> out.calls, pre |-> world]
    /\ UNCHANGED <<store, now, installed, last, writer, reader, scan, snapshot>>

CleanTraces ==
    /\ call.state = "idle"
    /\ \E traces \in Batches, confirm \in BOOLEAN :
        Returned(traces, confirm, clean_traces(traces, confirm, world))

NextCleaner == CleanTraces

(***************************************************************************)
(* The registry remover on its own: delete_registry_trace on a registry    *)
(* trace under each spelling of each hive, in a registry that has the      *)
(* application's key in every hive.                                        *)
(***************************************************************************)
\* the hive each accepted prefix stands for
HiveOf ==
    [HKLM |-> "HKEY_LOCAL_MACHINE", HKEY_LOCAL_MACHINE |-> "HKEY_LOCAL_MACHINE",
     HKCU |-> "HKEY_CURRENT_USER", HKEY_CURRENT_USER |-> "HKEY_CURRENT_USER",
     HKCR |-> "HKEY_CLASSES_ROOT", HKEY_CLASSES_ROOT |-> "HKEY_CLASSES_ROOT",
     HKU |-> "HKEY_USERS", HKEY_USERS |-> "HKEY_USERS"]

\* Software\App and Software\App\Val
Subkeys == {slice_from(Path.AppKey, 5), slice_from(Path.AppValue, 5)}

\* the registry traces handed to the remover: the accepted prefixes, a hive
\* the remover does not know, and a path without a hive
RegistryTraces ==
    {Trace("t-reg", trace_type, prefix \o subkey, FALSE) :
        trace_type \in RegistryKinds,
        prefix \in {Prefix[p] : p \in DOMAIN Prefix} \cup {<<"H","K","C","C","\\">>, <<>>},
        subkey \in Subkeys}

\* the application's key, with or without its value, in each of the hives
RegistryWorlds ==
    {[keys |-> {[hkey |-> HiveOf[p], path |-> to_uppercase(slice_from(Path.AppKey, 5))] :
                    p \in DOMAIN HiveOf},
      values |-> {[hkey |-> HiveOf[p], key |-> to_uppercase(slice_from(Path.AppKey, 5)),
                   name |-> <<"V","A","L">>] : p \in hives_with_value},
      fs |-> {}, deny |-> deny] :
        hives_with_value \in {{}, DOMAIN HiveOf}, deny \in {{}, {"reg"}}}

\* delete_registry_trace(&trace)
DeleteRegistryTrace ==
    /\ call.state = "idle"
    /\ \E trace \in RegistryTraces :
          Returned(<<trace>>, TRUE,
                   [ok |-> delete_registry_trace(trace, world).ok,
                    err |-> delete_registry_trace(trace, world).err,
                    results |-> <<delete_registry_trace(trace, world).result>>,
                    world |-> delete_registry_trace(trace, world).world,
                    calls |-> <<Called("delete_registry_trace", trace)>>])

InitRegistry ==
    /\ store = NoCacheFile
    /\ now = 0
    /\ installed = <<>>
    /\ last = NoOperation
    /\ writer = Idle.writer /\ reader = Idle.reader
    /\ scan = Idle.scan /\ snapshot = Idle.snapshot
    /\ world \in RegistryWorlds
    /\ call = NoCall @@ [pre |-> world]

NextRegistry == DeleteRegistryTrace

SpecRegistry == InitRegistry /\ [][NextRegistry]_vars

SpecCleaner == InitCleaner /\ [][NextCleaner]_vars

(***************************************************************************)
(* The cache's specifications.  `last` records the last operation on the   *)
(* cache: its inputs, the cache file and the time it found, and what it    *)
(* returned.  SpecStorage runs save_scan_cache and read_scan_cache against *)
(* the cache file while the clock advances; SpecLister runs                *)
(* list_programs_with_cache and read_scan_cache, with metadata also        *)
(* written from outside.                                                   *)
(***************************************************************************)
Operation(fields) == fields @@ [pre |-> store, at |-> now] @@ NoOperation

\* the last operation on the cache file before this one, the moves of the
\* clock and the changes of the registry aside
Previous ==
    IF last.name \in {"clock", "registry"}
    THEN last.prev
    ELSE [name |-> last.name, ok |-> last.ok, entries |-> last.entries,
          at |-> last.at]

SaveReturned(entries, out) ==
    /\ store' = out.store
    /\ last' = Operation([name |-> "save_scan_cache", entries |-> entries,
                          ok |-> out.ok, err |-> out.err])
    /\ UNCHANGED <<now, installed, world, call, writer, reader, scan, snapshot>>

SaveScanCache ==
    \E entries \in EntryLists :
        SaveReturned(entries, save_scan_cache(entries, store, now))

ReadScanCache ==
    \E ttl_seconds \in TtlInputs :
        /\ last' = Operation([name |-> "read_scan_cache", ttl |-> ttl_seconds,
                              ok |-> TRUE,
                              read |-> Some(read_scan_cache(ttl_seconds, store, now)),
                              prev |-> Previous])
        /\ UNCHANGED <<store, now, installed, world, call, writer, reader, scan, snapshot>>

ListReturned(query, out) ==
    /\ store' = out.store
    /\ last' = Operation([name |-> "list_programs_with_cache", query |-> query,
                          ok |-> out.ok, err |-> out.err, read |-> out.cached,
                          response |-> out.response, rescanned |-> out.rescanned])
    /\ UNCHANGED <<now, installed, world, call, writer, reader, scan, snapshot>>

ListProgramsWithCache ==
    \E query \in Queries :
        ListReturned(query, list_programs_with_cache(query, store, now, installed))

WriteCacheMetadata ==
    \E written \in ForeignMetadata(now) :
        /\ store' = write_cache_metadata(open_scan_cache_connection(store),
                                         written[1], written[2])
        /\ last' = Operation([name |-> "write_cache_metadata", key |-> written[1],
                              ok |-> TRUE])
        /\ UNCHANGED <<now, installed, world, call, writer, reader, scan, snapshot>>

invalidate_scan_cache_KeepsFile(s) == s

\* if path.exists() { remove_file(&path)?; }
invalidate_scan_cache(s) == IF s.exists THEN NoCacheFile ELSE s

\* the program name is not used
invalidate_scan_cache_for_program(program_name, s) == invalidate_scan_cache(s)

\* invalidate_scan_cache(), or invalidate_scan_cache_for_program(name)
InvalidateScanCache ==
    \E program_name \in {None, Some(Text.App), Some(Text.Tool)} :
        /\ store' = IF program_name = None
                    THEN invalidate_scan_cache(store)
                    ELSE invalidate_scan_cache_for_program(program_name[1], store)
        /\ last' = Operation([name |-> "invalidate_scan_cache", ok |-> TRUE,
                              key |-> program_name])
        /\ UNCHANGED <<now, installed, world, call, writer, reader, scan, snapshot>>

JumpTicks == DEFAULT_CACHE_TTL_SECONDS * TicksPerSecond

\* the clock moves on by a tick
ClockTick ==
    /\ now % JumpTicks < MaxFineTicks
    /\ now' = now + 1
    /\ last' = Operation([name |-> "clock", prev |-> Previous])
    /\ UNCHANGED <<store, installed, world, call, writer, reader, scan, snapshot>>

\* the clock moves on by the default TTL, once
ClockJump ==
    /\ now < JumpTicks
    /\ now' = now + JumpTicks
    /\ last' = Operation([name |-> "clock", prev |-> Previous])
    /\ UNCHANGED <<store, installed, world, call, writer, reader, scan, snapshot>>

\* programs are installed or removed: list_registry_programs finds another
\* inventory from now on
RegistryChanges ==
    /\ installed' \in Inventories \ {installed}
    /\ last' = Operation([name |-> "registry", prev |-> Previous])
    /\ UNCHANGED <<store, now, world, call, writer, reader, scan, snapshot>>

InitStorage ==
    /\ store = NoCacheFile
    /\ now = 0
    /\ installed = <<>>
    /\ last = NoOperation
    /\ writer = Idle.writer /\ reader = Idle.reader
    /\ scan = Idle.scan /\ snapshot = Idle.snapshot
    /\ world = BareWorld
    /\ call = NoCall @@ [pre |-> BareWorld]

NextStorage ==
    \/ SaveScanCache
    \/ ReadScanCache
    \/ ClockTick
    \/ ClockJump

SpecStorage == InitStorage /\ [][NextStorage]_vars

InitLister ==
    /\ store = NoCacheFile
    /\ now = 0
    /\ installed \in Inventories
    /\ last = NoOperation
    /\ writer = Idle.writer /\ reader = Idle.reader
    /\ scan = Idle.scan /\ snapshot = Idle.snapshot
    /\ world = BareWorld
    /\ call = NoCall @@ [pre |-> BareWorld]

NextLister ==
    \/ ListProgramsWithCache
    \/ ReadScanCache
    \/ WriteCacheMetadata
    \/ InvalidateScanCache
    \/ RegistryChanges
    \/ ClockTick
    \/ ClockJump

SpecLister == InitLister /\ [][NextLister]_vars

(***************************************************************************)
(* save_scan_cache running next to read_scan_cache, statement by           *)
(* statement.  The cache file is in WAL mode: what the writer's            *)
(* transaction has done is in `writer` until the commit puts it into       *)
(* `store`, and each statement of the reader, made outside a transaction,  *)
(* reads `store` as it is committed when the statement runs.               *)
(* `reader.seen` keeps the committed states of the cache file the read     *)
(* has lived through; `writer.pre` the one the save found.                 *)
(***************************************************************************)
\* the lists saved while a read is under way; one of them has two entries
\* of one cache key
ConcurrentEntryLists ==
    {<<>>, <<SavedProgram.App>>, <<SavedProgram.Demo, SavedProgram.App>>,
     <<SavedProgram.Demo, SavedProgram.DemoLower>>}

\* the reader lives through the committed state s
Seeing(s) ==
    IF reader.pc \in {"idle", "done"}
    THEN reader
    ELSE [reader EXCEPT !.seen = @ \cup {s}]

\* open_scan_cache_connection, transaction(), DELETE FROM the table and the
\* Utc::now() of the generation
SaveBegin ==
    /\ writer.pc \in {"idle", "done"}
    /\ writer.saves < MaxSaves
    /\ \E entries \in ConcurrentEntryLists :
          writer' = [pc |-> "insert", entries |-> entries, rows |-> {},
                     stamp |-> now, pre |-> store, ok |-> TRUE,
                     saves |-> writer.saves + 1]
    /\ store' = open_scan_cache_connection(store)
    /\ reader' = Seeing(store')
    /\ UNCHANGED <<now, installed, last, world, call, scan, snapshot>>

\* one statement.execute of the loop; an INSERT that fails drops the
\* transaction, which rolls it back
SaveInsert ==
    /\ writer.pc = "insert"
    /\ writer.entries # <<>>
    /\ writer' =
          IF InsertEntries(<<Head(writer.entries)>>, writer.rows).ok
          THEN [writer EXCEPT
                  !.entries = Tail(@),
                  !.rows = InsertEntries(<<Head(writer.entries)>>, writer.rows).rows]
          ELSE [writer EXCEPT !.pc = "done", !.ok = FALSE]
    /\ UNCHANGED <<store, now, installed, last, world, call, reader, scan, snapshot>>

\* both write_cache_metadata calls and the commit
SaveCommit ==
    /\ writer.pc = "insert"
    /\ writer.entries = <<>>
    /\ store' = Committed([ok |-> TRUE, rows |-> writer.rows], store, writer.stamp).store
    /\ writer' = [writer EXCEPT !.pc = "done"]
    /\ reader' = Seeing(store')
    /\ UNCHANGED <<now, installed, last, world, call, scan, snapshot>>

\* the existence test, and with the file there open_scan_cache_connection
\* and the SELECT of schema_version
ReadBegin ==
    /\ reader.pc \in {"idle", "done"}
    /\ \E ttl_seconds \in {1, DEFAULT_CACHE_TTL_SECONDS} :
          reader' =
            IF ~store.exists
            THEN [Idle.reader EXCEPT
                    !.pc = "done", !.ttl_seconds = ttl_seconds, !.instant = now,
                    !.seen = {store},
                    !.result = read_scan_cache(ttl_seconds, store, now)]
            ELSE [Idle.reader EXCEPT
                    !.pc = "generated_at", !.ttl_seconds = ttl_seconds,
                    !.seen = {store},
                    !.schema_version = StoredSchemaVersion(store)]
    /\ UNCHANGED <<store, now, installed, last, world, call, writer, scan, snapshot>>

\* the SELECT of generated_at
ReadGeneratedAt ==
    /\ reader.pc = "generated_at"
    /\ reader' = [reader EXCEPT !.pc = "rows",
                     !.generated_at = read_cache_metadata(store, "generated_at")]
    /\ UNCHANGED <<store, now, installed, last, world, call, writer, scan, snapshot>>

\* the tests of what was read, the Utc::now() of the TTL test and, if they
\* pass, the SELECT of the rows
ReadRows ==
    /\ reader.pc = "rows"
    /\ reader' = [reader EXCEPT
                     !.pc = "done", !.instant = now,
                     !.result = ReadMetadata(reader.ttl_seconds, store, now,
                                             reader.schema_version, reader.generated_at)]
    /\ UNCHANGED <<store, now, installed, last, world, call, writer, scan, snapshot>>

InitConcurrent ==
    /\ store = NoCacheFile
    /\ now = 0
    /\ installed = <<>>
    /\ last = NoOperation
    /\ writer = Idle.writer /\ reader = Idle.reader
    /\ scan = Idle.scan /\ snapshot = Idle.snapshot
    /\ world = BareWorld
    /\ call = NoCall @@ [pre |-> BareWorld]

NextConcurrent ==
    \/ SaveBegin
    \/ SaveInsert
    \/ SaveCommit
    \/ ReadBegin
    \/ ReadGeneratedAt
    \/ ReadRows
    \/ ClockTick

SpecConcurrent == InitConcurrent /\ [][NextConcurrent]_vars

(***************************************************************************)
(* The lister without the cache: enrich_programs and list_all_programs on  *)
(* what the registry lister collected.                                     *)
(***************************************************************************)
\* what parse_registry_entry may hand to enrich_program: the registry values
\* InstallDate, DisplayIcon, InstallLocation and EstimatedSize present or
\* not, valid or not
RawPrograms ==
    {[InstalledProgram_new("id-raw", Text.Tool, "Registry") EXCEPT
        !.install_date = f.install_date,
        !.icon_path = f.icon_path,
        !.install_location = f.install_location,
        !.estimated_size = f.estimated_size,
        !.size = f.estimated_size] :
     f \in [install_date : {None, Some("20240115"), Some("soon")},
            icon_path : {None, Some("C:\\Apps\\App\\app.ico"), Some("C:\\gone.ico"),
                         Some("C:\\Apps\\Tool\\tool.exe,1"),
                         Some("\"C:\\Apps\\App\\app.ico\",0")},
            install_location : {None, Some("C:\\Apps\\Tool"), Some("C:\\Apps\\Link")},
            estimated_size : {None, Some(2048)}]}

\* the registry listers' finds of list_all_programs: the inventories, and
\* one where the second of two entries of a name has the publisher
ListedInventories ==
    Inventories \cup
    {<<RegistryEntry.Demo,
       [RegistryEntry.DemoLower EXCEPT !.publisher = Some(Text.Acme)],
       RegistryEntry.App>>}

list_all_programs_FilterFirst(source, search, registry_programs, instant) ==
    dedupe_and_sort(
        apply_search_filter(
            enrich_programs(collect_programs(source, registry_programs), instant),
            search))

\* collect, enrich, dedupe_and_sort, apply_search_filter
list_all_programs(source, search, registry_programs, instant) ==
    apply_search_filter(
        dedupe_and_sort(
            enrich_programs(collect_programs(source, registry_programs), instant)),
        search)

ListAllPrograms ==
    /\ \E source \in {None, Some("Registry"), Some("Msi"), Some("Store"), Some("Unknown")},
          search \in {None, Some(Text.Dm), Some(Text.Acme)} :
          last' = Operation(
                    [name |-> "list_all",
                     query |-> [source |-> source, search |-> search,
                                refresh |-> FALSE, cache_ttl_seconds |-> 0],
                     entries |-> list_all_programs(source, search, installed, now)])
    /\ UNCHANGED <<store, now, installed, world, call, writer, reader, scan, snapshot>>

\* enrich_programs(&mut programs)
EnrichPrograms ==
    /\ installed' = enrich_programs(installed, now)
    /\ last' = Operation([name |-> "enrich", entries |-> installed])
    /\ UNCHANGED <<store, now, world, call, writer, reader, scan, snapshot>>

InitPrograms ==
    /\ store = NoCacheFile
    /\ now = 0
    /\ installed \in {<<program>> : program \in RawPrograms} \cup ListedInventories
    /\ last = NoOperation
    /\ writer = Idle.writer /\ reader = Idle.reader
    /\ scan = Idle.scan /\ snapshot = Idle.snapshot
    /\ world = BareWorld
    /\ call = NoCall @@ [pre |-> BareWorld]

NextPrograms ==
    \/ EnrichPrograms
    \/ ListAllPrograms
    \/ ClockTick

SpecPrograms == InitPrograms /\ [][NextPrograms]_vars

(***************************************************************************)
(* The Trace Scanner (scanner/mod.rs): scan_all_traces spawns one task per *)
(* requested source; each task scans, and on Ok takes the mutex and        *)
(* appends what it found to the shared collector; the caller awaits every  *)
(* handle, then assigns the confidences, sorts and filters.                *)
(***************************************************************************)
\* str::contains
contains(s, pattern) ==
    \E i \in 0..(Len(s) - Len(pattern)) : SubSeq(s, i + 1, i + Len(pattern)) = pattern

\* Trace::new; the id is the fresh uuid
Trace_new(id, program_name, trace_type, path) ==
    [id |-> id, program_name |-> program_name, trace_type |-> trace_type,
     path |-> path, description |-> "", size |-> None, is_critical |-> FALSE,
     confidence |-> "Low", exists |-> TRUE]

\* common/utils.rs: both sides are uppercased
is_system_critical_path(path) ==
    \E p \in {<<"C",":","\\","W","I","N","D","O","W","S">>,
               <<"C",":","\\","W","I","N","D","O","W","S","\\","S","Y","S","T","E","M","3","2">>,
               <<"C",":","\\","W","I","N","D","O","W","S","\\","S","Y","S","W","O","W","6","4">>,
               <<"C",":","\\","W","I","N","D","O","W","S","\\","I","N","F">>,
               <<"C",":","\\","W","I","N","D","O","W","S","\\","W","I","N","S","X","S">>,
               <<"C",":","\\","P","R","O","G","R","A","M"," ","F","I","L","E","S","\\","W","I","N","D","O","W","S">>} :
        starts_with(to_uppercase(path), to_uppercase(p))

\* common/utils.rs: the path is uppercased, the entries are taken as written
is_critical_registry_path(path) ==
    \E p \in {<<"H","K","L","M","\\","S","Y","S","T","E","M">>,
               <<"H","K","L","M","\\","S","O","F","T","W","A","R","E","\\","M","i","c","r","o","s","o","f","t","\\","W","i","n","d","o","w","s"," ","N","T">>,
               <<"H","K","L","M","\\","S","O","F","T","W","A","R","E","\\","M","i","c","r","o","s","o","f","t","\\","W","i","n","d","o","w","s","\\","C","u","r","r","e","n","t","V","e","r","s","i","o","n","\\","R","U","N">>,
               <<"H","K","C","R","\\","*">>,
               <<"H","K","L","M","\\","B","O","O","T">>} :
        starts_with(to_uppercase(path), p)

MatchConfidence_NoDotBoundary(name_lower, path_lower) ==
    IF \/ contains(path_lower, <<"\\">> \o name_lower \o <<" ">>)
       \/ contains(path_lower, <<"/">> \o name_lower \o <<" ">>)
    THEN "High"
    ELSE IF contains(path_lower, name_lower) THEN "Medium" ELSE "Low"

\* the confidence of one trace: exact_match, else name_match, else Low
MatchConfidence(name_lower, path_lower) ==
    IF \/ contains(path_lower, <<"\\">> \o name_lower \o <<" ">>)
       \/ contains(path_lower, <<"/">> \o name_lower \o <<" ">>)
       \/ contains(path_lower, <<"\\">> \o name_lower \o <<".">>)
    THEN "High"
    ELSE IF contains(path_lower, name_lower) THEN "Medium" ELSE "Low"

assign_confidence_scores(program_name, traces) ==
    [i \in 1..Len(traces) |->
        [traces[i] EXCEPT
            !.confidence = MatchConfidence(to_lowercase(program_name),
                                           to_lowercase(traces[i].path)),
            !.is_critical =
                \/ @
                \/ is_system_critical_path(traces[i].path)
                \/ /\ traces[i].trace_type \in {"RegistryKey", "RegistryValue"}
                   /\ is_critical_registry_path(traces[i].path)]]

\* #[derive(PartialOrd, Ord)] on enum Confidence { High, Medium, Low }: the
\* variants compare in the order they are declared
ConfidenceOrd == [High |-> 0, Medium |-> 1, Low |-> 2]

\* result.sort_by(|a, b| b.confidence.cmp(&a.confidence)), a stable sort:
\* a trace goes in front of the first one the comparator puts it before
RECURSIVE InsertByConfidence(_, _)
InsertByConfidence(sorted, trace) ==
    IF sorted = <<>> THEN <<trace>>
    ELSE IF ConfidenceOrd[Head(sorted).confidence] < ConfidenceOrd[trace.confidence]
         THEN <<trace>> \o sorted
         ELSE <<Head(sorted)>> \o InsertByConfidence(Tail(sorted), trace)

RECURSIVE SortByConfidence(_)
SortByConfidence(traces) ==
    IF traces = <<>> THEN <<>>
    ELSE InsertByConfidence(SortByConfidence(SubSeq(traces, 1, Len(traces) - 1)),
                            traces[Len(traces)])

\* the source scanners and the trace type that requests each
Sources ==
    [registry |-> "RegistryKey", filesystem |-> "File", appdata |-> "AppData",
     shortcuts |-> "Shortcut"]

\* Trace::with_confidence
with_confidence(trace, confidence) == [trace EXCEPT !.confidence = confidence]

\* the keys, files and directories within the scanners' reach: the source
\* that walks over each, the trace type it gives it, and the key or file
\* name it compares with the pattern.  The filesystem scanner gives a .lnk
\* file the type Shortcut.
Scannable ==
    <<[id |-> "r1", source |-> "registry", trace_type |-> "RegistryKey",
      path |-> Path.AppKey, name |-> Text.App],
     [id |-> "r2", source |-> "registry", trace_type |-> "RegistryKey",
      path |-> Path.ToolKey, name |-> Text.Tool],
     [id |-> "r3", source |-> "registry", trace_type |-> "RegistryKey",
      path |-> Path.StarKey, name |-> Text.App],
     [id |-> "f1", source |-> "filesystem", trace_type |-> "File",
      path |-> Path.AppDir, name |-> Text.App],
     [id |-> "f2", source |-> "filesystem", trace_type |-> "Shortcut",
      path |-> Path.AppToolLnk, name |-> <<"A","p","p"," ","T","o","o","l",".","l","n","k">>],
     [id |-> "a1", source |-> "appdata", trace_type |-> "AppData",
      path |-> Path.MyAppDir, name |-> <<"M","y","A","p","p">>],
     [id |-> "s1", source |-> "shortcuts", trace_type |-> "Shortcut",
      path |-> Path.AppLnk, name |-> <<"A","p","p">>]>>

\* the scanners take the entries whose name contains the pattern, and give
\* each a provisional confidence: the registry scanner Medium outside the
\* Uninstall and App Paths keys, the others High if the name starts with
\* the pattern and Medium otherwise
Found(item, pattern) ==
    with_confidence(
        Trace_new(item.id, pattern, item.trace_type, item.path),
        IF item.source # "registry" /\ starts_with(to_lowercase(item.name), pattern)
        THEN "High" ELSE "Medium")

\* the walk of a scanner over the entries it takes
Walked(items, pattern) == [i \in 1..Len(items) |-> Found(items[i], pattern)]

\* what a source scanner may return for a program: Ok with the traces it
\* found, or an Err; "abort" is a task that panics
ScannerOutcomes(source, program_name) ==
    {[kind |-> "err", traces |-> <<>>], [kind |-> "abort", traces |-> <<>>],
     [kind |-> "ok",
      traces |-> Walked(SelectSeq(Scannable,
                            LAMBDA item :
                                /\ item.source = source
                                /\ contains(to_lowercase(item.name),
                                            to_lowercase(program_name))),
                        to_lowercase(program_name))]}

\* trace_types as passed by a caller
TraceTypeInputs ==
    {None, Some({"RegistryKey", "File"}), Some({"AppData", "Shortcut", "Service"}),
     Some({"File"}), Some({"Shortcut"})}

\* tokio::spawn for each source whose type is among the requested ones
Spawned(types) ==
    [source \in DOMAIN Sources |->
        [pc |-> IF Sources[source] \in types THEN "scanning" ELSE "none",
         traces |-> <<>>]]

ScanAllTraces ==
    /\ scan.phase = "idle"
    /\ \E program_name \in {Text.App, Text.Tool}, trace_types \in TraceTypeInputs :
          scan' = [Idle.scan EXCEPT
                     !.phase = "running",
                     !.program_name = program_name,
                     !.types = unwrap_or_default(trace_types,
                                   {"RegistryKey", "File", "AppData", "Shortcut"}),
                     !.tasks = Spawned(unwrap_or_default(trace_types,
                                   {"RegistryKey", "File", "AppData", "Shortcut"}))]
    /\ UNCHANGED <<world, call, store, now, installed, last, writer, reader, snapshot>>

\* the task's scanner returns, or the task panics in it
TaskScans ==
    \E source \in DOMAIN Sources :
        /\ scan.tasks[source].pc = "scanning"
        /\ \E outcome \in ScannerOutcomes(source, scan.program_name) :
              scan' = [scan EXCEPT
                         !.tasks[source] =
                            [pc |-> IF outcome.kind = "ok" THEN "lock" ELSE outcome.kind,
                             traces |-> outcome.traces]]
        /\ UNCHANGED <<world, call, store, now, installed, last, writer, reader, snapshot>>

\* t.lock().await returns once the mutex is free
TaskLocks ==
    \E source \in DOMAIN Sources :
        /\ scan.tasks[source].pc = "lock"
        /\ scan.lock = ""
        /\ scan' = [scan EXCEPT !.lock = source, !.tasks[source].pc = "append"]
        /\ UNCHANGED <<world, call, store, now, installed, last, writer, reader, snapshot>>

\* guard.append(&mut traces), and the guard is dropped
TaskAppends ==
    \E source \in DOMAIN Sources :
        /\ scan.tasks[source].pc = "append"
        /\ scan' = [scan EXCEPT
                      !.collector = @ \o scan.tasks[source].traces,
                      !.lock = "",
                      !.tasks[source].pc = "ok"]
        /\ UNCHANGED <<world, call, store, now, installed, last, writer, reader, snapshot>>

\* the tasks whose handle.await has not returned yet
Unfinished(tasks) ==
    {source \in DOMAIN tasks : tasks[source].pc \in {"scanning", "lock", "append"}}

AllJoined_NoWait(tasks) == TRUE

\* for handle in handles { let _ = handle.await; }
AllJoined(tasks) == Unfinished(tasks) = {}

Collected_FailsWithATask(program_name, collector, tasks) ==
    [ok |-> \A source \in DOMAIN tasks : tasks[source].pc \notin {"err", "abort"},
     result |-> SelectSeq(SortByConfidence(
                              assign_confidence_scores(program_name, collector)),
                          LAMBDA t : t.exists)]

\* Ok(result): the confidences, the sort and the filter on what was collected
Collected(program_name, collector, tasks) ==
    [ok |-> TRUE,
     result |-> SelectSeq(SortByConfidence(
                              assign_confidence_scores(program_name, collector)),
                          LAMBDA t : t.exists)]

\* the handles have been awaited: the collector is locked and cloned
Collect ==
    /\ scan.phase = "running"
    /\ AllJoined(scan.tasks)
    /\ scan.lock = ""
    /\ scan' = [scan EXCEPT
                  !.phase = "done",
                  !.unfinished = Unfinished(scan.tasks),
                  !.merged = scan.collector,
                  !.ok = Collected(scan.program_name, scan.collector, scan.tasks).ok,
                  !.result = Collected(scan.program_name, scan.collector, scan.tasks).result]
    /\ UNCHANGED <<world, call, store, now, installed, last, writer, reader, snapshot>>

InitScanner ==
    /\ store = NoCacheFile
    /\ now = 0
    /\ installed = <<>>
    /\ last = NoOperation
    /\ writer = Idle.writer /\ reader = Idle.reader
    /\ scan = Idle.scan /\ snapshot = Idle.snapshot
    /\ world = BareWorld
    /\ call = NoCall @@ [pre |-> BareWorld]

NextScanner ==
    \/ ScanAllTraces
    \/ TaskScans
    \/ TaskLocks
    \/ TaskAppends
    \/ Collect

SpecScanner == InitScanner /\ [][NextScanner]_vars

(***************************************************************************)
(* The criticality pass of the scanner next to the Safety Gate: one trace  *)
(* of any kind and path goes through assign_confidence_scores, and the     *)
(* same trace, not flagged, through pre_delete_check.                      *)
(***************************************************************************)
\* the paths of the traces compared
FlaggedPaths ==
    {Path.SysKey, Path.RunValue, Path.AppKey, Path.AppValue, Path.StarKey,
     Path.SamKey, Path.ToolKey, Path.WinFile, Path.WinAppDir, Path.WindowsAppDir,
     Path.AppDir, Path.AppFile, Path.AppLnk, Path.MyAppDir}

FlagAndCheck ==
    /\ \E trace_type \in TraceType, path \in FlaggedPaths :
          last' = Operation(
                    [name |-> "flag",
                     entries |-> assign_confidence_scores(Text.App,
                                    <<Trace_new("t1", Text.App, trace_type, path)>>),
                     err |-> pre_delete_check(Trace_new("t1", Text.App, trace_type, path))])
    /\ UNCHANGED <<store, now, installed, world, call, writer, reader, scan, snapshot>>

NextFlagging == FlagAndCheck

SpecFlagging == InitScanner /\ [][NextFlagging]_vars

(***************************************************************************)
(* The program snapshot (lister/storage.rs): programs.json holds a JSON    *)
(* array of programs; save_program_snapshot and delete_saved_program read  *)
(* the whole file, change the list and write it back.                      *)
(***************************************************************************)
\* serde_json::to_string_pretty(&all_programs)
to_string_pretty(programs) ==
    [i \in 1..Len(programs) |-> serde_json_to_string(programs[i])]

\* serde_json::from_str::<Vec<InstalledProgram>>(&content).unwrap_or_default():
\* one element that does not parse fails the whole array
from_str_or_default(content) ==
    IF \E i \in DOMAIN content : serde_json_from_str(content[i]) = None
    THEN <<>>
    ELSE [i \in 1..Len(content) |-> serde_json_from_str(content[i])[1]]

\* the programs read from the snapshot file; Vec::new() if there is none
SnapshotPrograms(file) ==
    IF file.exists THEN from_str_or_default(file.content) ELSE <<>>

Upserted_CaseSensitive(all_programs, program) ==
    SelectSeq(all_programs, LAMBDA p : p.name # program.name) \o <<program>>

\* retain the entries of another lowercased name, then push the program
Upserted(all_programs, program) ==
    SelectSeq(all_programs,
              LAMBDA p : to_lowercase(p.name) # to_lowercase(program.name))
    \o <<program>>

\* for program in programs { retain; push }
RECURSIVE UpsertedAll(_, _)
UpsertedAll(all_programs, programs) ==
    IF programs = <<>> THEN all_programs
    ELSE UpsertedAll(Upserted(all_programs, Head(programs)), Tail(programs))

save_program_snapshot(programs, file) ==
    [exists |-> TRUE,
     content |-> to_string_pretty(UpsertedAll(SnapshotPrograms(file), programs))]

delete_saved_program(name, file) ==
    IF ~file.exists THEN file
    ELSE [exists |-> TRUE,
          content |-> to_string_pretty(
              SelectSeq(SnapshotPrograms(file),
                        LAMBDA p : ~contains(to_lowercase(p.name), to_lowercase(name))))]

\* the lists handed to save_program_snapshot: uninstall.rs saves one program;
\* a list may name a program twice
SnapshotLists ==
    {<<>>, <<SavedProgram.Demo>>, <<SavedProgram.DemoLower>>, <<SavedProgram.App>>,
     <<MsiProducts[1]>>, <<SavedProgram.Demo, SavedProgram.DemoLower>>,
     <<SavedProgram.App, SavedProgram.Demo>>}

SaveProgramSnapshot ==
    \E programs \in SnapshotLists :
        /\ snapshot' = save_program_snapshot(programs, snapshot)
        /\ last' = Operation([name |-> "save_program_snapshot", ok |-> TRUE,
                              entries |-> programs, pre |-> snapshot])
        /\ UNCHANGED <<store, now, installed, world, call, writer, reader, scan>>

DeleteSavedProgram ==
    \E name \in {Text.Demo, Text.App, Text.Dm, <<"o">>, <<>>} :
        /\ snapshot' = delete_saved_program(name, snapshot)
        /\ last' = Operation([name |-> "delete_saved_program", ok |-> TRUE,
                              key |-> name, pre |-> snapshot])
        /\ UNCHANGED <<store, now, installed, world, call, writer, reader, scan>>

InitSnapshot ==
    /\ store = NoCacheFile
    /\ now = 0
    /\ installed = <<>>
    /\ last = NoOperation
    /\ writer = Idle.writer /\ reader = Idle.reader
    /\ scan = Idle.scan /\ snapshot = Idle.snapshot
    /\ world = BareWorld
    /\ call = NoCall @@ [pre |-> BareWorld]

NextSnapshot ==
    \/ SaveProgramSnapshot
    \/ DeleteSavedProgram

SpecSnapshot == InitSnapshot /\ [][NextSnapshot]_vars

(***************************************************************************)
(* Properties of the cleaner (checked under SpecCleaner).                  *)
(***************************************************************************)
Done == call.state = "done"

\* the trace's path starts, compared without regard to case, with an entry of
\* the denylist of its kind
OnDenylist(trace) ==
    \/ /\ trace.trace_type \in RegistryKinds
       /\ \E i \in DOMAIN CRITICAL_REGISTRY_PATHS :
            starts_with(to_uppercase(trace.path), to_uppercase(CRITICAL_REGISTRY_PATHS[i]))
    \/ /\ trace.trace_type \in PathKinds
       /\ \E i \in DOMAIN CRITICAL_PATHS :
            starts_with(to_uppercase(trace.path), to_uppercase(CRITICAL_PATHS[i]))

RemoverCalls == {"delete_registry_trace", "delete_file_trace", "delete_shortcut_trace"}

RemoverCalledFor(trace) ==
    \E k \in DOMAIN call.calls :
        call.calls[k].op \in RemoverCalls /\ call.calls[k].trace_id = trace.id

\* C1: every registry trace whose path starts, case-insensitively, with an entry of
\* the critical-registry denylist, and every File, AppData or Shortcut trace whose
\* path starts with an entry of the critical-directory denylist, is rejected by
\* pre_delete_check with CriticalSystemItem, and clean_traces(.., true) calls no
\* remover for it.
C1_DenylistedTraceNeverRemoved ==
    (Done /\ call.confirm) =>
        \A i \in DOMAIN call.traces :
            OnDenylist(call.traces[i]) =>
                /\ pre_delete_check(call.traces[i]).kind = "CriticalSystemItem"
                /\ ~RemoverCalledFor(call.traces[i])

\* C2: clean_traces(traces, false) returns a PermissionDenied error for every input
\* list, runs no Safety Gate check, calls no remover, produces no CleanResult and
\* leaves the registry and the file system as they were.
C2_UnconfirmedDoesNothing ==
    (Done /\ ~call.confirm) =>
        /\ ~call.ok
        /\ call.err.kind = "PermissionDenied"
        /\ call.calls = <<>>
        /\ call.results = <<>>
        /\ world = call.pre

C2_Witness ==
    /\ Done
    /\ ~call.confirm
    /\ Len(call.traces) >= 1
    /\ call.traces[1] = T.AppDir
    /\ PathExists(call.pre, Path.AppDir)
    /\ "fs" \notin call.pre.deny

\* the Safety Gate checks of the trail, in the order they were made
GateChecks == SelectSeq(call.calls, LAMBDA c : c.op = "pre_delete_check")

\* C3: with confirm=true clean_traces returns Ok with one CleanResult per input trace,
\* the i-th carrying the id and path of the i-th trace, whatever mix of rejections,
\* unsupported kinds, remover failures and remover errors occurs; the traces are
\* attempted strictly in input order, each attempt made before the next trace is
\* looked at.
C3_OneResultPerTraceInOrder ==
    (Done /\ call.confirm) =>
        /\ call.ok
        /\ Len(call.results) = Len(call.traces)
        /\ \A i \in DOMAIN call.traces :
            /\ call.results[i].trace_id = call.traces[i].id
            /\ call.results[i].path = call.traces[i].path
        /\ Len(GateChecks) = Len(call.traces)
        /\ \A i \in DOMAIN call.traces : GateChecks[i].trace_id = call.traces[i].id
        /\ \A k \in DOMAIN call.calls :
            call.calls[k].op \in RemoverCalls =>
                /\ k > 1
                /\ call.calls[k - 1] = [op |-> "pre_delete_check",
                                        trace_id |-> call.calls[k].trace_id]

\* a batch that mixes a rejection, an unsupported kind or a failure with a later success
C3_Witness ==
    /\ Done
    /\ call.confirm
    /\ Len(call.traces) >= 2
    /\ ~call.results[1].success
    /\ call.results[2].success
    /\ call.results[2].bytes_freed > 0

\* the target a supported trace names exists in world w
TargetExists(w, trace) ==
    LET parsed == parse_registry_path(trace.path)
        at == LastSeparator(parsed.subkey)
    IN  IF trace.trace_type = "RegistryKey"
        THEN parsed.some /\ KeyExists(w, parsed.hkey, parsed.subkey)
        ELSE IF trace.trace_type = "RegistryValue"
        THEN /\ parsed.some
             /\ at > 0
             /\ ValueExists(w, parsed.hkey, SubSeq(parsed.subkey, 1, at - 1),
                            SubSeq(parsed.subkey, at + 1, Len(parsed.subkey)))
        ELSE PathExists(w, trace.path)

\* C4: for every trace of a supported kind that passes the Safety Gate and whose
\* target does not exist (a RegistryValue whose parent key does not exist included),
\* clean_traces([t], true) returns one CleanResult with success=true, no error and
\* bytes_freed=0.
C4_MissingTargetIsSuccess ==
    (Done /\ call.confirm /\ Len(call.traces) = 1) =>
        LET t == call.traces[1]
        IN  (/\ RemoverFor(t) # "none"
             /\ pre_delete_check(t).ok
             /\ ~TargetExists(call.pre, t))
            => call.results = <<CleanResult(t, TRUE, NoError, 0)>>

\* the batch without its i-th trace
Without(seq, i) == SubSeq(seq, 1, i - 1) \o SubSeq(seq, i + 1, Len(seq))

\* C5: a trace the Safety Gate rejects inside a batch (a RegistryKey trace under
\* HKLM\SYSTEM, any trace with is_critical set) gets a CleanResult with success=false
\* and an error naming a critical-system-item rejection, and the other traces of the
\* batch are processed exactly as they are without it: same results, same final world.
C5_RejectionDoesNotAbortBatch ==
    (Done /\ call.confirm) =>
        \A i \in DOMAIN call.traces :
            LET t == call.traces[i]
            IN  /\ (t.is_critical \/ (t.trace_type = "RegistryKey"
                                      /\ starts_with(t.path, Append(CRITICAL_REGISTRY_PATHS[1], Backslash))))
                        => ~pre_delete_check(t).ok
                /\ ~pre_delete_check(t).ok =>
                    /\ ~call.results[i].success
                    /\ call.results[i].bytes_freed = 0
                    /\ Len(call.results[i].error) = 3
                    /\ call.results[i].error[1] = "skip_critical_item"
                    /\ call.results[i].error[2] = "CriticalSystemItem"
                    /\ LET alone == clean_traces(Without(call.traces, i), TRUE, call.pre)
                       IN  /\ alone.results = Without(call.results, i)
                           /\ alone.world = world

\* a rejected trace followed by a trace that is then removed
C5_Witness ==
    /\ Done
    /\ call.confirm
    /\ Len(call.traces) >= 2
    /\ call.traces[1] \in {T.SysKey, T.Flagged}
    /\ ~call.results[1].success
    /\ call.traces[2] = T.AppKey
    /\ call.results[2].success
    /\ KeyOf(Path.AppKey) \in call.pre.keys
    /\ KeyOf(Path.AppKey) \notin world.keys

\* C23: every CleanResult clean_traces produces, on every path through the
\* Safety Gate, the dispatch and the three removers, has an error exactly
\* when success is false, bytes_freed = 0 whenever success is false, and
\* bytes_freed = 0 for every RegistryKey or RegistryValue trace.
C23_CleanResultIsWellFormed ==
    (Done /\ call.confirm) =>
        \A i \in DOMAIN call.results :
            /\ call.results[i].error # NoError <=> ~call.results[i].success
            /\ ~call.results[i].success => call.results[i].bytes_freed = 0
            /\ call.traces[i].trace_type \in RegistryKinds =>
                  call.results[i].bytes_freed = 0

\* a registry deletion the OS refuses, followed by a deletion that frees bytes
C23_Witness ==
    /\ Done
    /\ call.confirm
    /\ Len(call.traces) >= 2
    /\ call.traces[1] = T.AppKey
    /\ ~call.results[1].success
    /\ call.results[1].error = <<"Registry", "os:PermissionDenied">>
    /\ call.results[2].success
    /\ call.results[2].bytes_freed > 0

\* the accepted prefix a path starts with and the text after it, if any
Spelled(path) ==
    {[prefix |-> p, subkey |-> SubSeq(path, Len(Prefix[p]) + 1, Len(path))] :
        p \in {q \in DOMAIN Prefix : starts_with(path, Prefix[q])}}

\* the key and the value name a value path names: the text before and after
\* its last separator
KeyPart(subkey) ==
    SubSeq(subkey, 1, (CHOOSE i \in DOMAIN subkey :
                          subkey[i] = Backslash
                          /\ \A j \in (i + 1)..Len(subkey) : subkey[j] # Backslash) - 1)

NamePart(subkey) == SubSeq(subkey, Len(KeyPart(subkey)) + 2, Len(subkey))

\* C24: for every registry trace path that begins with one of the eight
\* accepted hive prefixes and a separator, the registry remover works on the
\* hive of the prefix and on the subkey that is exactly the text after the
\* prefix and its separator, the short and the long spelling of a hive giving
\* the same hive and subkey; a RegistryValue path is split at its last
\* separator into the key path and the value name; any other prefix gives a
\* failed result and the registry is not touched.
C24_RemoverWorksOnTheNamedKey ==
    (Done /\ Len(call.traces) = 1 /\ call.calls[1].op = "delete_registry_trace") =>
        /\ \A s \in Spelled(call.traces[1].path) :
              /\ parse_registry_path(call.traces[1].path) = Hive(HiveOf[s.prefix], s.subkey)
              /\ (call.traces[1].trace_type = "RegistryKey" /\ call.results[1].success) =>
                    ~KeyExists(world, HiveOf[s.prefix], s.subkey)
              /\ (call.traces[1].trace_type = "RegistryValue" /\ call.results[1].success) =>
                    ~ValueExists(world, HiveOf[s.prefix], KeyPart(s.subkey),
                                 NamePart(s.subkey))
        /\ Spelled(call.traces[1].path) = {} =>
              /\ ~call.results[1].success
              /\ world = call.pre

\* the bytes of the files at or under a path
SizeAt(w, path) ==
    SumLen({e \in w.fs : ~e.is_dir /\ AtOrUnder(e.path, to_uppercase(path))})

\* C25: when the filesystem remover or the shortcut remover deletes a target
\* that existed, bytes_freed is the size of the target before the deletion
\* (the length of a file, the sum of the files of a directory); when the
\* deletion fails the result has success = false, the error of the OS and
\* bytes_freed = 0, and the target is left in place.
C25_BytesFreedIsTheSizeBefore ==
    (/\ Done /\ call.confirm /\ Len(call.traces) = 1
     /\ RemoverFor(call.traces[1]) \in {"delete_file_trace", "delete_shortcut_trace"}
     /\ pre_delete_check(call.traces[1]).ok
     /\ PathExists(call.pre, call.traces[1].path)) =>
        IF call.results[1].success
        THEN /\ call.results[1].bytes_freed = SizeAt(call.pre, call.traces[1].path)
             /\ ~PathExists(world, call.traces[1].path)
        ELSE /\ call.results[1].error # NoError
             /\ call.results[1].bytes_freed = 0
             /\ world = call.pre

(***************************************************************************)
(* Claims about the Scan Cache.                                            *)
(***************************************************************************)
Range(seq) == {seq[i] : i \in DOMAIN seq}

Names(programs) == {programs[i].name : i \in DOMAIN programs}

\* the last operation read the cache, and what the read returned
ReadMade == last.name \in {"read_scan_cache", "list_programs_with_cache"} /\ is_some(last.read)

ReadResult == last.read[1]

ReadEntries == unwrap_or_default(ReadResult.entries, <<>>)

\* the TTL the read was made with, in seconds
ReadTtl ==
    IF last.name = "read_scan_cache" THEN last.ttl
    ELSE IF last.query.cache_ttl_seconds <= 0 THEN DEFAULT_CACHE_TTL_SECONDS
    ELSE last.query.cache_ttl_seconds

\* read_scan_cache directly after save_scan_cache, the clock's moves aside
SavedThenRead == last.name = "read_scan_cache" /\ last.prev.name = "save_scan_cache"

SavedList == last.prev.entries

WithinTtl == last.at - last.prev.at <= last.ttl * TicksPerSecond

DistinctCacheKeys(entries) ==
    \A i, j \in DOMAIN entries :
        i # j => build_program_cache_key(entries[i]) # build_program_cache_key(entries[j])

OtherSchemaVersion(s) ==
    \/ s.meta.schema_version = None
    \/ parse_u32(s.meta.schema_version[1]) = None
    \/ parse_u32(s.meta.schema_version[1]) # Some(CACHE_SCHEMA_VERSION)

\* C7: if the metadata of the cache file holds a schema_version other than
\* CACHE_SCHEMA_VERSION (absent and unparsable included), read_scan_cache
\* reports cache_hit=false, reason schema_mismatch and no entries, whatever
\* generated_at and rows are there, and list_programs_with_cache rescans.
C7_SchemaMismatchIsAMiss ==
    (ReadMade /\ last.pre.exists /\ OtherSchemaVersion(last.pre)) =>
        /\ ~ReadResult.cache_hit
        /\ ReadResult.reason = Some("schema_mismatch")
        /\ ReadResult.entries = None
        /\ last.name = "list_programs_with_cache" =>
              /\ last.rescanned
              /\ last.response.cache.refreshed
              /\ last.response.cache.reason = Some("schema_mismatch")

\* a list query found rows under a fresh generated_at and schema_version 999
C7_Witness ==
    /\ last.name = "list_programs_with_cache" /\ ReadMade
    /\ last.pre.meta.schema_version = Some(<<"9","9","9">>)
    /\ last.pre.rows # {}
    /\ is_some(last.pre.meta.generated_at)
    /\ parse_from_rfc3339(last.pre.meta.generated_at[1]) = Some(last.at)
    /\ ReadResult.reason = Some("schema_mismatch")
    /\ last.rescanned

SpecReasons ==
    {"cache_missing", "schema_mismatch", "cache_invalid_generated_at",
     "cache_expired", "cache_empty"}

Missed == ReadMade /\ ~ReadResult.cache_hit

GeneratedAtOf(s) == parse_from_rfc3339(s.meta.generated_at[1])

\* the condition each reason names, on the cache file the read found
ReasonHolds(reason, s) ==
    CASE reason = "cache_missing" -> ~s.exists
      [] reason = "schema_mismatch" -> s.exists /\ OtherSchemaVersion(s)
      [] reason = "cache_missing_generated_at" ->
            s.exists /\ s.meta.generated_at = None
      [] reason = "cache_invalid_generated_at" ->
            s.exists /\ is_some(s.meta.generated_at) /\ GeneratedAtOf(s) = None
      [] reason = "cache_expired" ->
            /\ s.exists /\ is_some(s.meta.generated_at) /\ is_some(GeneratedAtOf(s))
            /\ last.at - GeneratedAtOf(s)[1] > ReadTtl * TicksPerSecond
      [] reason = "cache_empty" -> s.exists /\ s.rows = {}
      [] OTHER -> FALSE

EligibleQuery ==
    /\ last.name = "list_programs_with_cache"
    /\ last.query.source \in {None, Some("Registry")}
    /\ ~last.query.refresh

\* the cache file the query found has the current schema version, rows and
\* a parseable generated_at
SoundCache(s) ==
    /\ s.exists /\ ~OtherSchemaVersion(s)
    /\ s.rows # {}
    /\ is_some(s.meta.generated_at) /\ is_some(GeneratedAtOf(s))

ServedFromCache ==
    /\ last.response.cache.cache_hit
    /\ ~last.rescanned

\* C9: with matching schema version, rows and a parseable generated_at = g, an
\* eligible non-refresh query at time t with TTL ttl >= 1 is served from the
\* cache exactly when t - g <= ttl, and otherwise reports cache_expired and
\* rescans; cache_ttl_seconds <= 0 is evaluated as 900 seconds.
C9_ServedExactlyWithinTtl ==
    (EligibleQuery /\ SoundCache(last.pre)) =>
        /\ ServedFromCache <=>
              last.at - GeneratedAtOf(last.pre)[1] <= ReadTtl * TicksPerSecond
        /\ ~ServedFromCache =>
              /\ last.response.cache.reason = Some("cache_expired")
              /\ last.rescanned

\* C10: an eligible non-refresh query that finds a valid cache returns the
\* cached programs filtered by the search string with cache_hit, cache_valid
\* and not refreshed, runs no lister and no enrichment, and leaves the
\* cache's rows and its schema_version and generated_at as they were.
C10_ValidHitIsServedUntouched ==
    (EligibleQuery /\ ReadMade /\ ReadResult.cache_hit /\ ReadResult.cache_valid) =>
        /\ last.ok
        /\ last.response.programs =
              SelectSeq(ReadEntries,
                  LAMBDA p : \/ last.query.search = None
                             \/ SearchMatches(p, to_lowercase(last.query.search[1])))
        /\ last.response.cache.cache_hit
        /\ last.response.cache.cache_valid
        /\ ~last.response.cache.refreshed
        /\ ~last.rescanned
        /\ store.rows = last.pre.rows
        /\ store.meta = last.pre.meta

\* a hit on a cache of two programs of which the search keeps one
C10_Witness ==
    /\ EligibleQuery /\ ReadMade /\ ReadResult.cache_hit
    /\ last.query.search = Some(Text.Dm)
    /\ Len(ReadEntries) = 2
    /\ Len(last.response.programs) = 1
    /\ last.response.programs[1].name = Text.DemoLower
    /\ store = last.pre

\* the query is for a cacheable source, forced or not
CacheableQuery ==
    /\ last.name = "list_programs_with_cache"
    /\ last.query.source \in {None, Some("Registry")}

\* what the listers find and enrichment makes of it at the time of the
\* query, one program per lowercased name
FreshPrograms ==
    dedupe_and_sort(enrich_programs(collect_programs(last.query.source, installed), last.at))

\* C11: after an eligible list_programs_with_cache query that is not served
\* from the cache has completed successfully, the rows of the cache file are
\* exactly the freshly collected, enriched and deduplicated programs (no row
\* of the previous generation is left and none is missing), schema_version is
\* CACHE_SCHEMA_VERSION and generated_at is the time of the rebuild.
C11_RebuildReplacesTheCache ==
    (CacheableQuery /\ last.ok /\ last.rescanned) =>
        /\ store.exists
        /\ {row.payload_json : row \in store.rows} =
              {serde_json_to_string(p) : p \in Range(FreshPrograms)}
        /\ Cardinality(store.rows) = Len(FreshPrograms)
        /\ last.query.search = None =>
              Range(ParsedPrograms(OrderByName(store.rows))) =
                  Range(last.response.programs)
        /\ store.meta.schema_version = Some(u32_to_string(CACHE_SCHEMA_VERSION))
        /\ store.meta.generated_at = Some(to_rfc3339(last.at))

\* a rebuild some time after the programs of the cached generation were
\* removed: the cache file had two rows and has none
C11_Witness ==
    /\ CacheableQuery /\ last.ok /\ last.rescanned
    /\ Cardinality(last.pre.rows) = 2
    /\ installed = <<>>
    /\ store.rows = {}
    /\ last.at > 0
    /\ store.meta.generated_at = Some(to_rfc3339(last.at))
    /\ last.pre.meta.generated_at # store.meta.generated_at

\* C12: a list_programs_with_cache query for the source Msi, Store or Unknown
\* neither reads nor writes the cache file, whatever refresh and the TTL are:
\* rows and metadata are as before the call, and the response reports
\* cache_hit=false, cache_valid=false, refreshed=false and the reason
\* source_not_cacheable.
C12_OtherSourcesBypassTheCache ==
    (/\ last.name = "list_programs_with_cache"
     /\ last.query.source \in {Some("Msi"), Some("Store"), Some("Unknown")}) =>
        /\ last.ok
        /\ last.read = None
        /\ store = last.pre
        /\ ~last.response.cache.cache_hit
        /\ ~last.response.cache.cache_valid
        /\ ~last.response.cache.refreshed
        /\ last.response.cache.reason = Some("source_not_cacheable")

\* a forced Msi query on a cache file that holds a generation: the product
\* is listed and the cache file is as it was
C12_Witness ==
    /\ last.name = "list_programs_with_cache"
    /\ last.query.source = Some("Msi")
    /\ last.query.refresh
    /\ last.pre.rows # {}
    /\ store = last.pre
    /\ Len(last.response.programs) = 1
    /\ last.response.cache.reason = Some("source_not_cacheable")

\* C26: an eligible list_programs_with_cache query with refresh=true is never
\* served from the cache, even when the cache is valid and unexpired: it does
\* not read the cache, collects and enriches afresh, replaces the persisted
\* cache and responds cache_hit=false, cache_valid=true, refreshed=true with
\* the reason force_refresh; an eligible query with refresh=false reads the
\* cache before any collection is made.
C26_ForcedRefreshBypassesTheCache ==
    /\ (CacheableQuery /\ last.query.refresh /\ last.ok) =>
          /\ last.read = None
          /\ last.rescanned
          /\ last.response.programs =
                apply_search_filter(FreshPrograms, last.query.search)
          /\ {row.payload_json : row \in store.rows} =
                {serde_json_to_string(p) : p \in Range(FreshPrograms)}
          /\ store.meta.generated_at = Some(to_rfc3339(last.at))
          /\ ~last.response.cache.cache_hit
          /\ last.response.cache.cache_valid
          /\ last.response.cache.refreshed
          /\ last.response.cache.reason = Some("force_refresh")
    /\ (CacheableQuery /\ ~last.query.refresh) =>
          /\ last.read = Some(read_scan_cache(EffectiveTtl(last.query.cache_ttl_seconds),
                                              last.pre, last.at))
          /\ (last.read[1].cache_hit /\ last.read[1].cache_valid) => ~last.rescanned

\* a forced query on a cache of two programs that a read would have served:
\* the cache now holds the three programs that are installed
C26_Witness ==
    /\ CacheableQuery /\ last.query.refresh /\ last.ok
    /\ read_scan_cache(EffectiveTtl(last.query.cache_ttl_seconds), last.pre, last.at).cache_hit
    /\ read_scan_cache(EffectiveTtl(last.query.cache_ttl_seconds), last.pre, last.at).cache_valid
    /\ Cardinality(last.pre.rows) = 2
    /\ Len(installed) = 3
    /\ Cardinality(store.rows) = Len(FreshPrograms)
    /\ last.response.cache.reason = Some("force_refresh")

\* C28: in every ProgramListResponse cache_hit implies cache_valid, not
\* refreshed and no reason; refreshed implies no cache_hit and cache_valid;
\* cache_hit and refreshed are both false only with the reason
\* source_not_cacheable; and refreshed implies that the persisted cache was
\* rewritten during the call (its rows are the programs collected by the call
\* and its generated_at is the time of the call).
C28_ResponseFlagsAreConsistent ==
    (last.name = "list_programs_with_cache" /\ last.ok) =>
        /\ last.response.cache.cache_hit =>
              /\ last.response.cache.cache_valid
              /\ ~last.response.cache.refreshed
              /\ last.response.cache.reason = None
        /\ last.response.cache.refreshed =>
              /\ ~last.response.cache.cache_hit
              /\ last.response.cache.cache_valid
              /\ last.rescanned
              /\ {row.payload_json : row \in store.rows} =
                    {serde_json_to_string(p) : p \in Range(FreshPrograms)}
              /\ store.meta.generated_at = Some(to_rfc3339(last.at))
        /\ (~last.response.cache.cache_hit /\ ~last.response.cache.refreshed) =>
              last.response.cache.reason = Some("source_not_cacheable")

\* a response that rebuilt a cache that had expired, with the reason of the
\* failed read
C28_Witness ==
    /\ last.name = "list_programs_with_cache" /\ last.ok
    /\ last.response.cache.refreshed
    /\ last.response.cache.reason = Some("cache_expired")
    /\ last.pre.rows # {}
    /\ store.meta.generated_at = Some(to_rfc3339(last.at))

\* the queries for a cacheable source that may follow a rebuild
LaterQueries ==
    [source : {None, Some("Registry")},
     search : {None, Some(Text.Dm), Some(Text.Acme)},
     refresh : {FALSE},
     cache_ttl_seconds : {0, 1}]

\* how long after the rebuild they come, in ticks
LaterBy == {0, 1, TicksPerSecond}

\* what the query returns when it finds the cache file as it is now, at a
\* time when the registry may hold another inventory
AskedLater(query, ticks, inventory) ==
    list_programs_with_cache(query, store, last.at + ticks, inventory)

\* C29: what a rebuild writes to the cache does not depend on the search
\* string of the query that made it, and a later query with any search string
\* that is served from that cache returns the programs a fresh
\* list_all_programs with that search string would have returned at the time
\* of the rebuild.
C29_CacheIsIndependentOfTheSearch ==
    (CacheableQuery /\ last.ok /\ last.rescanned) =>
        /\ \A search \in {None, Some(Text.Dm), Some(Text.Acme)} :
              list_programs_with_cache([last.query EXCEPT !.search = search],
                                       last.pre, last.at, installed).store = store
        /\ \A query \in LaterQueries, ticks \in LaterBy, inventory \in Inventories :
              AskedLater(query, ticks, inventory).response.cache.cache_hit =>
                  AskedLater(query, ticks, inventory).response.programs =
                      list_all_programs(query.source, query.search, installed, last.at)

\* a rebuild by a query whose search keeps one of the two programs found: the
\* cache holds both, and a later query without a search is served both
C29_Witness ==
    /\ CacheableQuery /\ last.ok /\ last.rescanned
    /\ last.query.search = Some(Text.Dm)
    /\ Len(last.response.programs) = 1
    /\ Cardinality(store.rows) = 2
    /\ \E query \in LaterQueries :
          /\ query.search = None
          /\ AskedLater(query, TicksPerSecond, <<>>).response.cache.cache_hit
          /\ Len(AskedLater(query, TicksPerSecond, <<>>).response.programs) = 2

(***************************************************************************)
(* Claims about save_scan_cache next to read_scan_cache (SpecConcurrent).  *)
(***************************************************************************)
\* C13: a read_scan_cache that runs while save_scan_cache does returns a
\* result (schema_version, generated_at and entries together) that is the
\* read of one committed state of the cache file, the one before the write
\* or the one after it, never a mixture of them; and a save_scan_cache that
\* fails part-way leaves the rows and the metadata it found.
C13_ReadIsOfOneGeneration ==
    /\ reader.pc = "done" =>
          \E s \in reader.seen :
              reader.result = read_scan_cache(reader.ttl_seconds, s, reader.instant)
    /\ (writer.pc = "done" /\ ~writer.ok) =>
          /\ store.rows = writer.pre.rows
          /\ store.meta = writer.pre.meta

\* the last operation on the cache file was an invalidation, the moves of
\* the clock and the changes of the registry aside
JustInvalidated == Previous.name = "invalidate_scan_cache"

\* C19: after invalidate_scan_cache, and after
\* invalidate_scan_cache_for_program with any name, the cache file no longer
\* exists; the next read_scan_cache reports cache_hit = false with the reason
\* cache_missing; and the next eligible list query rescans.
C19_InvalidationRemovesTheCache ==
    [][JustInvalidated =>
        /\ ~store.exists
        /\ last'.name = "read_scan_cache" =>
              /\ ~last'.read[1].cache_hit
              /\ last'.read[1].reason = Some("cache_missing")
        /\ (last'.name = "list_programs_with_cache"
              /\ is_cache_eligible(last'.query.source)) =>
              /\ last'.rescanned
              /\ ~last'.response.cache.cache_hit]_vars

C19_Witness ==
    /\ last.name = "invalidate_scan_cache"
    /\ last.key = Some(Text.App)
    /\ last.pre.exists
    /\ last.pre.rows # {}
    /\ ~store.exists

(***************************************************************************)
(* Claims about the Trace Scanner (checked under SpecScanner).             *)
(***************************************************************************)
\* Confidence as the specification orders it: High > Medium > Low
ConfidenceLevel == [High |-> 3, Medium |-> 2, Low |-> 1]

\* C14: the list scan_all_traces returns is sorted descending by confidence
\* under High > Medium > Low (every High trace comes before every Medium
\* trace, and those before every Low trace) and holds only traces with
\* exists = true.
C14_SortedByConfidenceDescending ==
    scan.phase = "done" =>
        /\ \A i, j \in DOMAIN scan.result :
              i < j => ConfidenceLevel[scan.result[i].confidence] >=
                       ConfidenceLevel[scan.result[j].confidence]
        /\ \A i \in DOMAIN scan.result : scan.result[i].exists

\* the ids of the traces of a list
Ids(traces) == {traces[i].id : i \in DOMAIN traces}

\* the sources whose task ended in the given ways
Ended(pcs) == {source \in DOMAIN Sources : scan.tasks[source].pc \in pcs}

\* the ids a source's scanner finds when it returns Ok
FoundBy(source) ==
    UNION {Ids(outcome.traces) : outcome \in ScannerOutcomes(source, scan.program_name)}

\* C15: if any subset of the scanner tasks fails (returns Err or is aborted),
\* scan_all_traces still returns Ok, and the result holds the traces of every
\* scanner that succeeded and no trace of a scanner that failed.
C15_FailedScannersAreLeftOut ==
    scan.phase = "done" =>
        /\ scan.ok
        /\ Ids(scan.result) = UNION {FoundBy(source) : source \in Ended({"ok"})}
        /\ \A source \in Ended({"err", "abort"}) : Ids(scan.result) \cap FoundBy(source) = {}

C15_Witness ==
    /\ scan.phase = "done"
    /\ scan.ok
    /\ scan.tasks["registry"].pc = "err"
    /\ scan.tasks["appdata"].pc = "abort"
    /\ Ids(scan.result) = {"f1", "f2", "s1"}

\* C16: under every interleaving of the scanner tasks, the confidence pass
\* and the sort start only after every task has finished, and the merged
\* list is exactly the multiset union of the lists the scanners returned:
\* no trace is lost, duplicated or torn.
C16_MergedIsTheUnionOfTheTasks ==
    scan.phase = "done" =>
        /\ scan.unfinished = {}
        /\ Range(scan.merged) =
              UNION {Range(scan.tasks[source].traces) : source \in DOMAIN Sources}
        /\ Cardinality(Range(scan.merged)) = Len(scan.merged)
        /\ Ids(scan.result) = Ids(scan.merged)

C16_Witness ==
    /\ scan.phase = "done"
    /\ Len(scan.merged) = 6
    /\ scan.merged[1].id = "s1"
    /\ scan.merged[2].id = "r1"
    /\ scan.merged[3].id = "r3"

\* C30: every trace scan_all_traces returns has a kind that is among the
\* requested kinds (a request for File only returns no Shortcut trace, a
\* request for Shortcut only returns no File trace), and for every requested
\* kind that some scanner can produce the scanner for it is started.
C30_OnlyRequestedKindsAreReturned ==
    /\ scan.phase = "done" =>
          \A i \in DOMAIN scan.result : scan.result[i].trace_type \in scan.types
    /\ scan.phase # "idle" =>
          \A source \in DOMAIN Sources :
              Sources[source] \in scan.types => scan.tasks[source].pc # "none"

\* the pattern occurs in the path after a path separator and before a
\* space or a dot
AtBoundary(path, pattern) ==
    \E i \in 2..(Len(path) - Len(pattern)) :
        /\ path[i - 1] \in {"\\", "/"}
        /\ SubSeq(path, i, i + Len(pattern) - 1) = pattern
        /\ path[i + Len(pattern)] \in {" ", "."}

\* the pattern occurs in the path
Occurs(path, pattern) ==
    \E i \in 1..(Len(path) - Len(pattern) + 1) :
        SubSeq(path, i, i + Len(pattern) - 1) = pattern

C22_FlagAgreesWithTheGate ==
    last.name = "flag" => (last.entries[1].is_critical <=> ~last.err.ok)

(***************************************************************************)
(* Claims about the lister without the cache (checked under SpecPrograms). *)
(***************************************************************************)
\* MetadataConfidence as the specification orders it:
\* High > Medium > Low > Unknown
MetadataLevel == [high |-> 3, medium |-> 2, low |-> 1, unknown |-> 0]

\* the three per-field confidences of a program
FieldConfidences(program) ==
    {program.install_date_confidence, program.icon_confidence, program.size_confidence}

\* C17: after enrich_program, metadata_confidence is the minimum of
\* install_date_confidence, icon_confidence and size_confidence under
\* High > Medium > Low > Unknown; it is never higher than any of the three.
C17_MetadataConfidenceIsTheLowest ==
    last.name = "enrich" =>
        \A i \in DOMAIN installed :
            /\ installed[i].metadata_confidence \in FieldConfidences(installed[i])
            /\ \A c \in FieldConfidences(installed[i]) :
                  MetadataLevel[installed[i].metadata_confidence] <= MetadataLevel[c]

C17_Witness ==
    /\ last.name = "enrich"
    /\ Len(installed) = 1
    /\ installed[1].install_date_confidence = "high"
    /\ installed[1].icon_confidence = "medium"
    /\ installed[1].size_confidence = "low"
    /\ installed[1].metadata_confidence = "low"

\* the resource index of a program's DisplayIcon value as the registry gave it
RegistryIconIndex(raw) ==
    unwrap_or_default(
        extract_icon_path_candidate_with_index(unwrap_or_default(raw.icon_path, "")),
        <<"", 0>>)[2]

\* the cache files of the icon path the program was given: with the index of
\* the registry value if the path came from it, with index 0 if it came from
\* the install location
CacheFilesOfResolved(raw, program) ==
    IconAssetBundle(<<program.icon_path[1],
                      IF program.icon_source = "registry" THEN RegistryIconIndex(raw) ELSE 0>>)

\* C27: whenever enrich_program resolves an icon path, from a DisplayIcon
\* value that is valid or from the install location when the value is absent
\* or invalid, what is rasterized is that resolved path (with the resource
\* index of the registry value when the path came from the registry), so the
\* program's icon cache paths are those of the resolved path; when
\* rasterization fails icon_cache_path_32 and icon_cache_path_48 are absent
\* and the install date and the size are enriched all the same.
C27_ResolvedIconIsRasterized ==
    (last.name = "enrich") =>
        \A i \in DOMAIN installed :
            is_some(installed[i].icon_path) =>
                /\ is_some(CacheFilesOfResolved(last.entries[i], installed[i])) =>
                      /\ installed[i].icon_cache_path_32 =
                            CacheFilesOfResolved(last.entries[i], installed[i])[1].icon_cache_path_32
                      /\ installed[i].icon_cache_path_48 =
                            CacheFilesOfResolved(last.entries[i], installed[i])[1].icon_cache_path_48
                /\ ~is_some(CacheFilesOfResolved(last.entries[i], installed[i])) =>
                      /\ installed[i].icon_cache_path_32 = None
                      /\ installed[i].icon_cache_path_48 = None
                      /\ installed[i].install_date =
                            EnrichInstallDate(last.entries[i]).install_date
                      /\ installed[i].size = resolve_program_size(last.entries[i])[1]


\* the programs of the selected source as collected, enriched
CollectedFor(source) == enrich_programs(collect_programs(source, installed), last.at)

\* the first entry, in collection order, of each lowercased name
FirstOfEachName(collected) ==
    {collected[i] : i \in {j \in DOMAIN collected :
        \A k \in 1..(j - 1) :
            to_lowercase(collected[k].name) # to_lowercase(collected[j].name)}}

\* the programs the search keeps, None keeping every program
KeptBySearch(programs, search) ==
    {p \in programs : search = None \/ SearchMatches(p, to_lowercase(search[1]))}

\* C18: in the list list_all_programs returns the lowercased names are
\* pairwise distinct and in non-decreasing order; of the entries of one name
\* the first in collection order is kept; the search filter is applied after
\* the deduplication; and the source None lists the registry only.
C18_ListIsDedupedSortedThenFiltered ==
    last.name = "list_all" =>
        /\ \A i, j \in DOMAIN last.entries :
              i < j => str_lt(to_lowercase(last.entries[i].name),
                              to_lowercase(last.entries[j].name))
        /\ Range(last.entries) =
              KeptBySearch(FirstOfEachName(CollectedFor(last.query.source)),
                           last.query.search)
        /\ last.query.source = None =>
              Range(last.entries) =
                KeptBySearch(FirstOfEachName(enrich_programs(installed, last.at)),
                             last.query.search)

C18_Witness ==
    /\ last.name = "list_all"
    /\ last.query.source = None
    /\ last.query.search = Some(Text.Acme)
    /\ Len(installed) = 3
    /\ installed[1].name = Text.Demo
    /\ installed[2].publisher = Some(Text.Acme)
    /\ Names(last.entries) = {Text.App}

(***************************************************************************)
(* Claims about the program snapshot (checked under SpecSnapshot).         *)
(***************************************************************************)
\* the lowercased names of a list of programs
LowerNames(programs) == {to_lowercase(programs[i].name) : i \in DOMAIN programs}

\* the entries of a list whose lowercased name is not among the given ones
OfOtherNames(programs, lower_names) ==
    SelectSeq(programs, LAMBDA p : to_lowercase(p.name) \notin lower_names)

\* of the programs handed to a save, the last one given for each name
LastGiven(programs) ==
    {programs[i] : i \in {j \in DOMAIN programs :
        \A k \in (j + 1)..Len(programs) :
            to_lowercase(programs[k].name) # to_lowercase(programs[j].name)}}

\* C20: after any sequence of save_program_snapshot and delete_saved_program
\* calls the snapshot file holds at most one entry per case-insensitively
\* compared name, the most recently saved one; a save leaves the entries of
\* other names unchanged; and delete_saved_program(s) removes exactly the
\* entries whose lowercased name contains the lowercased s.
C20_SnapshotHoldsOneEntryPerName ==
    /\ \A i, j \in DOMAIN SnapshotPrograms(snapshot) :
          i # j => to_lowercase(SnapshotPrograms(snapshot)[i].name) #
                   to_lowercase(SnapshotPrograms(snapshot)[j].name)
    /\ last.name = "save_program_snapshot" =>
          /\ LastGiven(last.entries) \subseteq Range(SnapshotPrograms(snapshot))
          /\ OfOtherNames(SnapshotPrograms(snapshot), LowerNames(last.entries)) =
                OfOtherNames(SnapshotPrograms(last.pre), LowerNames(last.entries))
    /\ last.name = "delete_saved_program" =>
          SnapshotPrograms(snapshot) =
            SelectSeq(SnapshotPrograms(last.pre),
                      LAMBDA p : \A i \in 0..(Len(p.name) - Len(last.key)) :
                          SubSeq(to_lowercase(p.name), i + 1, i + Len(last.key)) #
                          to_lowercase(last.key))

C20_Witness ==
    /\ last.name = "save_program_snapshot"
    /\ last.entries = <<SavedProgram.DemoLower>>
    /\ SnapshotPrograms(last.pre) = <<SavedProgram.Demo, SavedProgram.App>>
    /\ SnapshotPrograms(snapshot) = <<SavedProgram.App, SavedProgram.DemoLower>>

====
